---- MODULE Spec2Model ----
(***************************************************************************)
(* Model of the agent orchestration of the document RAG system:            *)
(*   - RAGAgent.process_query        (src/app/agents/rag_agent.py)         *)
(*   - ComparativeAgent.compare_documents and the six graph nodes          *)
(*                                   (src/app/agents/comparative_agent.py) *)
(* Texts are TLA+ strings; substring tests are computed character by       *)
(* character.  Confidences are integers in thousandths (1000 = 1.0) in the *)
(* query agent, and exact fractions in the comparison pipeline.  Distances *)
(* are integers in tenths (20 = 2.0).                                      *)
(***************************************************************************)
EXTENDS Integers, Sequences, FiniteSets, TLC

VARIABLES
    state,            \* AgentState threaded through the query workflow
    pc,               \* position of process_query / _run_graph
    query_response,   \* QueryResponse returned by process_query, or NoResponse
    request,          \* the QueryRequest given to process_query, or the
                      \* ComparisonRequest given to compare_documents
    dc,               \* locals of compare_documents (direct path)
    dpc,              \* position of compare_documents
    comparison_response, \* ComparisonResponse returned, or NoResponse
    cstate,           \* ComparisonState threaded through the graph nodes
    cpc,              \* graph node being run
    cl,               \* locals of the graph node being run
    calls             \* collaborator calls issued so far, in order

vars == <<state, pc, query_response, request, dc, dpc, comparison_response,
          cstate, cpc, cl, calls>>

ragVars == <<state, pc, query_response>>
directVars == <<request, dc, dpc, comparison_response>>
graphVars == <<cstate, cpc, cl>>

----------------------------------------------------------------------------
(* Bounds *)

MaxChunks == 6

----------------------------------------------------------------------------
(* Text helpers: str.lower() and the `in` substring test *)

LowerChar(c) ==
    CASE c = "A" -> "a" [] c = "B" -> "b" [] c = "C" -> "c" [] c = "D" -> "d"
      [] c = "E" -> "e" [] c = "F" -> "f" [] c = "G" -> "g" [] c = "H" -> "h"
      [] c = "I" -> "i" [] c = "J" -> "j" [] c = "K" -> "k" [] c = "L" -> "l"
      [] c = "M" -> "m" [] c = "N" -> "n" [] c = "O" -> "o" [] c = "P" -> "p"
      [] c = "Q" -> "q" [] c = "R" -> "r" [] c = "S" -> "s" [] c = "T" -> "t"
      [] c = "U" -> "u" [] c = "V" -> "v" [] c = "W" -> "w" [] c = "X" -> "x"
      [] c = "Y" -> "y" [] c = "Z" -> "z" [] OTHER -> c

\* the lower-cased characters of s at positions a..b (computed by halves,
\* which keeps the recursion shallow on long texts)
RECURSIVE LowerFrom(_, _, _)
LowerFrom(s, a, b) ==
    IF a > b THEN ""
    ELSE IF a = b THEN LowerChar(SubSeq(s, a, a))
    ELSE CHOOSE r \in { LowerFrom(s, a, m) \o LowerFrom(s, m + 1, b) :
                          m \in {(a + b) \div 2} } : TRUE

\* s.lower() (the argument is evaluated once and bound to t)
Lower(s) == CHOOSE r \in { LowerFrom(t, 1, Len(t)) : t \in {s} } : TRUE

\* word in text (the arguments are evaluated once and bound to t and w)
Contains(text, word) ==
    \E t \in {text} : \E w \in {word} :
        \E i \in 1..(Len(t) - Len(w) + 1) : SubSeq(t, i, i + Len(w) - 1) = w

\* any(word in text for word in words)
AnyIn(words, text) == \E t \in {text} : \E w \in words : Contains(t, w)

Min(a, b) == IF a <= b THEN a ELSE b

----------------------------------------------------------------------------
(* Environment of the query agent: queries, domain hints and what the      *)
(* retrieval and generation collaborators may return                       *)

\* QueryRequest.query values
Queries ==
    { "What is the health premium?",
      "Review the contract",
      "Insurance contract terms",
      "What is the monthly premium?",
      "portfolio budget",
      "hello",
      "CONTRACT",
      "Health PREMIUM",
      "compare cost versus copay deductible for my health" }

\* Optional[str]: None is modelled as the empty string (both are falsy)
None == ""

\* QueryRequest.domain_filter values
DomainHints == {None, "healthcare"}

\* chunk.get("distance") is None
NoDistance == -1

\* the 2.0 of `chunk["distance"] < 2.0`, in tenths
DistanceThreshold == 20

\* chunks the vector store may hand back (distance in tenths)
Corpus ==
    { [id |-> "near",   distance |-> 1,
       metadata |-> [filename |-> "plan_a.pdf", page_number |-> 1,
                     ontology_concepts |-> <<"premium">>]],
      [id |-> "nodist", distance |-> NoDistance,
       metadata |-> [filename |-> "plan_a.pdf", page_number |-> 2,
                     ontology_concepts |-> <<>>]],
      [id |-> "edge",   distance |-> DistanceThreshold,
       metadata |-> [filename |-> "plan_b.pdf", page_number |-> 1,
                     ontology_concepts |-> <<"copay tiers">>]] }

\* the distances 0.1, 0.3, 1.9, 2.5, 0.2, 3.0 of the six-chunk retrieval of
\* the premium scenario, in tenths
ScenarioDistances == <<1, 3, 19, 25, 2, 30>>

\* the six chunks of that retrieval, each carrying an ontology concept
ScenarioChunks ==
    [ i \in 1..Len(ScenarioDistances) |->
        [id |-> "s" \o ToString(i), distance |-> ScenarioDistances[i],
         metadata |-> [filename |-> "plan_c.pdf", page_number |-> i,
                       ontology_concepts |-> <<"premium">>]] ]

\* results of VectorStore.query_similar: any sequence of at most MaxChunks
\* chunks of the corpus, or the six chunks of the premium scenario
RetrievalResults ==
    UNION { [1..n -> Corpus] : n \in 0..MaxChunks } \cup {ScenarioChunks}

\* messages of the exceptions the collaborators raise
RetrievalErrors == {"RetrievalError"}
GenerationErrors == {"GenerationError"}

\* texts GeminiClient.generate_insights may return
GenAnswers ==
    { "The monthly premium is 250 dollars according to the plan summary on page 1.",
      "Unable to generate insights",
      "Error generating insights: the service was unavailable, please try again later",
      "No error" }

----------------------------------------------------------------------------
(* Pure parts of the query agent *)

HealthcareWords == {"insurance", "coverage", "medical", "health"}
LegalWords == {"contract", "legal", "agreement", "terms"}
FinancialWords == {"financial", "investment", "portfolio", "budget"}

\* DetectDomain with the legal keywords tested before the healthcare ones
DetectDomainLegalFirst(hint, query) ==
    IF hint # None THEN hint
    ELSE LET query_lower == Lower(query) IN
         IF AnyIn(LegalWords, query_lower) THEN "legal"
         ELSE IF AnyIn(HealthcareWords, query_lower) THEN "healthcare"
         ELSE IF AnyIn(FinancialWords, query_lower) THEN "financial"
         ELSE "general"

\* _analyze_query: the domain the step stores, given the hint and the query
DetectDomain(hint, query) ==
    IF hint # None THEN hint
    ELSE LET query_lower == Lower(query) IN
         IF AnyIn(HealthcareWords, query_lower) THEN "healthcare"
         ELSE IF AnyIn(LegalWords, query_lower) THEN "legal"
         ELSE IF AnyIn(FinancialWords, query_lower) THEN "financial"
         ELSE "general"

\* IsRelevant with a distance of exactly 2.0 accepted
IsRelevantInclusive(chunk) ==
    chunk.distance = NoDistance \/ chunk.distance <= DistanceThreshold

\* chunk.get("distance") is None or chunk["distance"] < 2.0
IsRelevant(chunk) ==
    chunk.distance = NoDistance \/ chunk.distance < DistanceThreshold

\* seq[:n]
Take(seq, n) == SubSeq(seq, 1, Min(n, Len(seq)))

\* [x for x in seq if P(x)]
RECURSIVE SelectRelevant(_)
SelectRelevant(chunks) ==
    IF chunks = <<>> THEN <<>>
    ELSE LET rest == SelectRelevant(Tail(chunks)) IN
         IF IsRelevant(Head(chunks)) THEN <<Head(chunks)>> \o rest ELSE rest

\* number of unfiltered chunks kept when nothing passes the threshold
FallbackKeep == 3

\* number of chunks kept by the filter step
TopKeep == 5

\* RelevantChunks without the keep-the-top-3 fallback
RelevantChunksNoFallback(chunks) == SelectRelevant(chunks)

\* _analyze_relevance: relevant_chunks before the final truncation
RelevantChunks(chunks) ==
    LET relevant_chunks == SelectRelevant(chunks) IN
    IF relevant_chunks = <<>> /\ chunks # <<>>
    THEN Take(chunks, FallbackKeep)
    ELSE relevant_chunks

\* FilteredChunks without the [:5] cut
FilteredChunksUncut(chunks) == RelevantChunks(chunks)

\* _analyze_relevance: the value stored in state["retrieved_chunks"]
FilteredChunks(chunks) == Take(RelevantChunks(chunks), TopKeep)

\* _generate_response: concepts of all chunks, concatenated
RECURSIVE ChunkConcepts(_)
ChunkConcepts(chunks) ==
    IF chunks = <<>> THEN <<>>
    ELSE Head(chunks).metadata.ontology_concepts \o ChunkConcepts(Tail(chunks))

\* the ordered keyword groups of _get_ontological_insights with their insight
InsightRules ==
    << [terms |-> {"premium", "cost", "price", "pay"},
        insight |-> "FINANCIAL CONTEXT: Premiums are recurring monthly costs. Consider total cost including deductibles and copayments."],
       [terms |-> {"deductible"},
        insight |-> "DEDUCTIBLE CONTEXT: Annual amount paid before insurance begins covering costs. Preventive services often exempt."],
       [terms |-> {"copay", "copayment"},
        insight |-> "COPAYMENT CONTEXT: Fixed amounts paid per service. Varies by provider type (primary care vs specialist)."],
       [terms |-> {"compare", "vs", "versus", "difference"},
        insight |-> "COMPARISON FRAMEWORK: Evaluate total annual cost (premiums + expected out-of-pocket) for meaningful comparisons."],
       [terms |-> {"primary care", "family doctor"},
        insight |-> "PRIMARY CARE: Usually lowest copayments. Often required for specialist referrals in HMO plans."],
       [terms |-> {"specialist", "specialty"},
        insight |-> "SPECIALIST CARE: Higher copayments than primary care. May require referrals depending on plan type."],
       [terms |-> {"emergency", "er", "urgent"},
        insight |-> "EMERGENCY CARE: Highest cost-sharing but no referral required. Consider urgent care for non-emergencies."],
       [terms |-> {"hmo", "ppo", "plan type"},
        insight |-> "PLAN TYPES: HMO requires referrals but lower costs. PPO offers flexibility but higher premiums."] >>

\* the insights list built by the chain of `if any(...)` tests
RECURSIVE MatchedInsights(_, _)
MatchedInsights(rules, query_lower) ==
    IF rules = <<>> THEN <<>>
    ELSE LET rest == MatchedInsights(Tail(rules), query_lower) IN
         IF AnyIn(Head(rules).terms, query_lower)
         THEN <<Head(rules).insight>> \o rest ELSE rest

\* sep.join(parts)
RECURSIVE Join(_, _)
Join(sep, parts) ==
    IF parts = <<>> THEN ""
    ELSE IF Len(parts) = 1 THEN parts[1]
    ELSE parts[1] \o sep \o Join(sep, Tail(parts))

\* insights[:4]
MaxInsights == 4

\* GetOntologicalInsights with the keyword groups tried for every domain
GetOntologicalInsightsAnyDomain(query, concepts, domain) ==
    IF concepts = <<>> THEN ""
    ELSE CHOOSE joined \in
             { Join(" | ", Take(insights, MaxInsights)) :
                 insights \in { MatchedInsights(InsightRules, query_lower) :
                                   query_lower \in {Lower(query)} } } : TRUE

\* GetOntologicalInsights without the insights[:4] cut
GetOntologicalInsightsUncapped(query, concepts, domain) ==
    IF concepts = <<>> THEN ""
    ELSE IF domain # "healthcare" THEN Join(" | ", <<>>)
    ELSE CHOOSE joined \in
             { Join(" | ", insights) :
                 insights \in { MatchedInsights(InsightRules, query_lower) :
                                   query_lower \in {Lower(query)} } } : TRUE

\* _get_ontological_insights
GetOntologicalInsights(query, concepts, domain) ==
    IF concepts = <<>> THEN ""
    ELSE IF domain # "healthcare" THEN Join(" | ", <<>>)
    ELSE CHOOSE joined \in
             { Join(" | ", Take(insights, MaxInsights)) :
                 insights \in { MatchedInsights(InsightRules, query_lower) :
                                   query_lower \in {Lower(query)} } } : TRUE

\* 0.2 per chunk, in thousandths
PerChunkConfidence == 200

\* the 0.1 ontology boost, in thousandths
OntologyBoost == 100

\* 1.0 in thousandths
FullConfidence == 1000

\* GenerateConfidence with the boost granted whether or not an insight was found
GenerateConfidenceAlwaysBoosted(chunks, ontology_insights) ==
    Min(FullConfidence,
        Min(FullConfidence, Len(chunks) * PerChunkConfidence) + OntologyBoost)

\* GenerateConfidence without the outer min(1.0, ...)
GenerateConfidenceUnclamped(chunks, ontology_insights) ==
    Min(FullConfidence, Len(chunks) * PerChunkConfidence)
        + (IF ontology_insights # "" THEN OntologyBoost ELSE 0)

\* _generate_response: the confidence computed on success
GenerateConfidence(chunks, ontology_insights) ==
    LET base_confidence == Min(FullConfidence, Len(chunks) * PerChunkConfidence)
        ontology_boost == IF ontology_insights # "" THEN OntologyBoost ELSE 0
    IN  Min(FullConfidence, base_confidence + ontology_boost)

\* len(response) < 50
ShortAnswerLen == 50

\* HalfPenalty with the factor 1.5
HalfPenaltyUp(c) == (c * 15) \div 10

\* state["confidence"] *= 0.5
HalfPenalty(c) == (c * 5) \div 10

\* state["confidence"] *= 0.3
ErrorPenalty(c) == (c * 3) \div 10

\* ValidateConfidence with the error test made only when the answer is not short
ValidateConfidenceOnePenalty(c, response) ==
    IF Len(response) < ShortAnswerLen THEN HalfPenalty(c)
    ELSE IF Contains(Lower(response), "error") THEN ErrorPenalty(c)
    ELSE c

\* _validate_response: the confidence after the two independent penalties
ValidateConfidence(c, response) ==
    LET c1 == IF Len(response) < ShortAnswerLen THEN HalfPenalty(c) ELSE c
    IN  IF Contains(Lower(response), "error") THEN ErrorPenalty(c1) ELSE c1

UpperChar(c) ==
    CASE c = "a" -> "A" [] c = "b" -> "B" [] c = "c" -> "C" [] c = "d" -> "D"
      [] c = "e" -> "E" [] c = "f" -> "F" [] c = "g" -> "G" [] c = "h" -> "H"
      [] c = "i" -> "I" [] c = "j" -> "J" [] c = "k" -> "K" [] c = "l" -> "L"
      [] c = "m" -> "M" [] c = "n" -> "N" [] c = "o" -> "O" [] c = "p" -> "P"
      [] c = "q" -> "Q" [] c = "r" -> "R" [] c = "s" -> "S" [] c = "t" -> "T"
      [] c = "u" -> "U" [] c = "v" -> "V" [] c = "w" -> "W" [] c = "x" -> "X"
      [] c = "y" -> "Y" [] c = "z" -> "Z" [] OTHER -> c

IsLetter(c) == LowerChar(c) # c \/ UpperChar(c) # c

\* str.title(): first letter of every run of letters upper, the others lower
RECURSIVE TitleFrom(_, _, _)
TitleFrom(s, a, b) ==
    IF a > b THEN ""
    ELSE IF a = b
         THEN LET c == SubSeq(s, a, a)
                  inWord == a > 1 /\ IsLetter(SubSeq(s, a - 1, a - 1))
              IN  IF inWord THEN LowerChar(c) ELSE UpperChar(c)
    ELSE CHOOSE r \in { TitleFrom(s, a, m) \o TitleFrom(s, m + 1, b) :
                          m \in {(a + b) \div 2} } : TRUE

Title(s) == CHOOSE r \in { TitleFrom(t, 1, Len(t)) : t \in {s} } : TRUE

\* the keyword groups of _extract_related_concepts with their concept sets
RelatedRules ==
    { [terms |-> {"cost", "price", "money", "pay", "premium", "deductible"},
       concepts |-> {"Premium", "Deductible", "Copayment", "Coinsurance", "Out-of-Pocket Maximum"}],
      [terms |-> {"visit", "doctor", "service", "care"},
       concepts |-> {"Primary Care", "Specialist Care", "Emergency Services", "Preventive Care"}],
      [terms |-> {"plan", "insurance", "coverage", "benefit"},
       concepts |-> {"HMO", "PPO", "EPO", "Benefits", "Provider Network"}],
      [terms |-> {"prescription", "drug", "medication", "pharmacy"},
       concepts |-> {"Generic Drugs", "Brand Drugs", "Formulary", "Pharmacy Network"}] }

\* concepts[:10]
MaxConceptsScanned == 10

\* list(related)[:8]
MaxRelated == 8

\* _extract_related_concepts: the set `related` before it is cut to 8
RelatedSet(query, concepts, domain) ==
    IF domain # "healthcare" THEN {}
    ELSE LET query_lower == Lower(query)
             scanned == Take(concepts, MaxConceptsScanned)
         IN  UNION { r.concepts : r \in { q \in RelatedRules : AnyIn(q.terms, query_lower) } }
             \cup { Title(scanned[i]) : i \in { j \in 1..Len(scanned) :
                        AnyIn({"premium", "deductible", "copay"}, Lower(scanned[j])) } }

\* _extract_related_concepts: list(related)[:8] keeps any 8 entries of the set
\* (set iteration order is unspecified); the list is modelled by its set
ExtractRelatedConcepts(query, concepts, domain) ==
    LET related == RelatedSet(query, concepts, domain) IN
    IF Cardinality(related) <= MaxRelated THEN {related}
    ELSE { r \in SUBSET related : Cardinality(r) = MaxRelated }

\* _extract_sources: one source per distinct (filename, page), first seen first
RECURSIVE SourcesFrom(_, _)
SourcesFrom(chunks, seen_docs) ==
    IF chunks = <<>> THEN <<>>
    ELSE LET metadata == Head(chunks).metadata
             doc_key == <<metadata.filename, metadata.page_number>>
         IN  IF doc_key \notin seen_docs
             THEN <<[filename |-> metadata.filename,
                     page |-> ToString(metadata.page_number)]>>
                  \o SourcesFrom(Tail(chunks), seen_docs \cup {doc_key})
             ELSE SourcesFrom(Tail(chunks), seen_docs)

ExtractSources(chunks) == SourcesFrom(chunks, {})

\* _extract_concepts: the set of ontology concepts of the chunks
ExtractConcepts(chunks) ==
    { ChunkConcepts(chunks)[i] : i \in 1..Len(ChunkConcepts(chunks)) }

\* state[key] = value, for a key the TypedDict may not hold yet
Put(s, key, value) ==
    [k \in DOMAIN s \cup {key} |-> IF k = key THEN value ELSE s[k]]

\* Log with the log restarted at the entry
LogRestarting(s, entry) == [s EXCEPT !.reasoning_steps = <<entry>>]

\* Log with the entry put at the front of the log
LogAtFront(s, entry) == [s EXCEPT !.reasoning_steps = <<entry>> \o @]

\* reasoning_steps.append(entry)
Log(s, entry) == [s EXCEPT !.reasoning_steps = Append(@, entry)]

NoResponse == [kind |-> "none"]

\* process_query: initial_state
InitialState(query_request) ==
    [ query |-> query_request.query,
      domain |-> query_request.domain_filter,
      retrieved_chunks |-> <<>>,
      analysis_results |-> <<>>,
      final_response |-> "",
      reasoning_steps |-> <<>>,
      confidence |-> 0,
      iteration_count |-> 0 ]

\* process_query: the QueryResponse built from the final state
BuildResponse(final_state) ==
    [ kind |-> "QueryResponse",
      answer |-> final_state.final_response,
      sources |-> ExtractSources(final_state.retrieved_chunks),
      confidence |-> final_state.confidence,
      reasoning_steps |-> final_state.reasoning_steps,
      related_concepts |-> ExtractConcepts(final_state.retrieved_chunks),
      metadata |-> [ iteration_count |-> final_state.iteration_count,
                     chunks_analyzed |-> Len(final_state.retrieved_chunks),
                     domain |-> final_state.domain ] ]

----------------------------------------------------------------------------
(* RAGAgent.process_query: the five workflow steps run by _run_graph, then *)
(* the response.  Each step catches its own exceptions; the steps whose    *)
(* collaborator call can raise have a second action for the except branch. *)
(* A value a step computes once and uses several times (the domain, the    *)
(* chunk concepts, the insight string) is bound by \E over a singleton.    *)

\* values of the comparison agents' variables while no comparison runs
Idle == [kind |-> "idle"]

\* EnhanceChunk with the context written into the chunk itself, no copy made
EnhanceChunkInPlace(chunk, ontology_insights) ==
    [ enhanced_chunk |-> Put(chunk, "ontology_context", ontology_insights),
      chunk |-> Put(chunk, "ontology_context", ontology_insights) ]

\* _generate_response: enhanced_chunk = chunk.copy() followed by
\* enhanced_chunk["ontology_context"] = ontology_insights; the result is the
\* enhanced copy together with the chunk of the state, which the write to
\* the copy leaves as it was
EnhanceChunk(chunk, ontology_insights) ==
    [ enhanced_chunk |-> Put(chunk, "ontology_context", ontology_insights),
      chunk |-> chunk ]

\* _build_graph: self.workflow_steps, in the order _run_graph runs them
WorkflowSteps == <<"analyze", "retrieve", "filter", "generate", "validate">>

\* NextStep with the relevance filter skipped
NextStepSkippingFilter(step) ==
    IF step = "retrieve" THEN "generate"
    ELSE LET i == CHOOSE k \in 1..Len(WorkflowSteps) : WorkflowSteps[k] = step
         IN  IF i < Len(WorkflowSteps) THEN WorkflowSteps[i + 1] ELSE "respond"

\* NextStep with the generation tried again after validation
NextStepRegenerating(step) ==
    IF step = "validate" THEN "generate"
    ELSE LET i == CHOOSE k \in 1..Len(WorkflowSteps) : WorkflowSteps[k] = step
         IN  WorkflowSteps[i + 1]

\* NextStep with a retry edge from validate back to retrieve
NextStepWithRetry(step) ==
    IF step = "validate" THEN "retrieve"
    ELSE LET i == CHOOSE k \in 1..Len(WorkflowSteps) : WorkflowSteps[k] = step
         IN  WorkflowSteps[i + 1]

\* _run_graph: the for loop moves to the following step of the list, and
\* after the last step returns to process_query, which builds the response
NextStep(step) ==
    LET i == CHOOSE k \in 1..Len(WorkflowSteps) : WorkflowSteps[k] = step
    IN  IF i < Len(WorkflowSteps) THEN WorkflowSteps[i + 1] ELSE "respond"

\* AnalyzeQuery with iteration_count left as it was
AnalyzeQueryNotCounting ==
    /\ pc = "analyze"
    /\ \E domain \in {DetectDomain(state.domain, state.query)} :
         LET s1 == Log(state, "Analyzing query intent and domain")
             s2 == Log(s1, "Identified domain: " \o domain)
         IN  state' = [s2 EXCEPT !.domain = domain]
    /\ pc' = NextStep(pc)
    /\ UNCHANGED <<query_response, calls, directVars, graphVars>>

\* _analyze_query
AnalyzeQuery ==
    /\ pc = "analyze"
    /\ \E domain \in {DetectDomain(state.domain, state.query)} :
         LET s1 == Log(state, "Analyzing query intent and domain")
             s2 == Log(s1, "Identified domain: " \o domain)
         IN  state' = [s2 EXCEPT !.domain = domain,
                                 !.iteration_count = @ + 1]
    /\ pc' = NextStep(pc)
    /\ UNCHANGED <<query_response, calls, directVars, graphVars>>

\* _retrieve_documents, query_similar returns
RetrieveDocuments ==
    /\ pc = "retrieve"
    /\ \E retrieved_chunks \in RetrievalResults :
         LET s1 == Log(state, "Retrieving relevant documents")
             s2 == Log(s1, "Retrieved " \o ToString(Len(retrieved_chunks))
                             \o " relevant chunks")
         IN  state' = [s2 EXCEPT !.retrieved_chunks = retrieved_chunks]
    /\ calls' = Append(calls, [fn |-> "query_similar", query_text |-> state.query,
                               domain_filter |-> state.domain, outcome |-> "returned"])
    /\ pc' = NextStep(pc)
    /\ UNCHANGED <<query_response, directVars, graphVars>>

\* _retrieve_documents, query_similar raises
RetrieveDocumentsFails ==
    /\ pc = "retrieve"
    /\ \E e \in RetrievalErrors :
         state' = Log(Log(state, "Retrieving relevant documents"),
                      "Error in document retrieval: " \o e)
    /\ calls' = Append(calls, [fn |-> "query_similar", query_text |-> state.query,
                               domain_filter |-> state.domain, outcome |-> "raised"])
    /\ pc' = NextStep(pc)
    /\ UNCHANGED <<query_response, directVars, graphVars>>

\* _analyze_relevance
AnalyzeRelevance ==
    /\ pc = "filter"
    /\ LET chunks == state.retrieved_chunks
           s1 == Log(state, "Analyzing relevance of retrieved content")
           relevant_chunks == RelevantChunks(chunks)
           s2 == Log(s1, "Filtered to " \o ToString(Len(relevant_chunks))
                           \o " highly relevant chunks")
       IN  state' = [s2 EXCEPT !.retrieved_chunks = FilteredChunks(chunks)]
    /\ pc' = NextStep(pc)
    /\ UNCHANGED <<query_response, calls, directVars, graphVars>>

\* _generate_response, generate_insights returns
GenerateResponse ==
    /\ pc = "generate"
    /\ \E chunk_concepts \in {ChunkConcepts(state.retrieved_chunks)} :
       \E ontology_insights \in
             {GetOntologicalInsights(state.query, chunk_concepts, state.domain)} :
       LET chunks == state.retrieved_chunks
           domain == state.domain
           enhanced == [i \in 1..Len(chunks) |-> EnhanceChunk(chunks[i], ontology_insights)]
           enhanced_chunks == [i \in 1..Len(chunks) |-> enhanced[i].enhanced_chunk]
           s1 == [Log(state, "Generating response using AI analysis with ontological reasoning")
                    EXCEPT !.retrieved_chunks = [i \in 1..Len(chunks) |-> enhanced[i].chunk]]
       IN  /\ \E response \in GenAnswers :
               \E related_concepts \in ExtractRelatedConcepts(state.query, chunk_concepts, domain) :
                 LET s2 == Log(s1, "Generated comprehensive response with ontological insights")
                     s3 == [s2 EXCEPT !.final_response = response,
                                      !.confidence = GenerateConfidence(chunks, ontology_insights)]
                 IN  state' = Put(s3, "related_concepts", related_concepts)
           /\ calls' = Append(calls, [fn |-> "generate_insights", query |-> state.query,
                                      context_chunks |-> enhanced_chunks,
                                      domain |-> domain, outcome |-> "returned"])
    /\ pc' = NextStep(pc)
    /\ UNCHANGED <<query_response, directVars, graphVars>>

\* _generate_response, generate_insights raises
GenerateResponseFails ==
    /\ pc = "generate"
    /\ \E chunk_concepts \in {ChunkConcepts(state.retrieved_chunks)} :
       \E ontology_insights \in
             {GetOntologicalInsights(state.query, chunk_concepts, state.domain)} :
       LET chunks == state.retrieved_chunks
           domain == state.domain
           enhanced == [i \in 1..Len(chunks) |-> EnhanceChunk(chunks[i], ontology_insights)]
           enhanced_chunks == [i \in 1..Len(chunks) |-> enhanced[i].enhanced_chunk]
           s1 == [Log(state, "Generating response using AI analysis with ontological reasoning")
                    EXCEPT !.retrieved_chunks = [i \in 1..Len(chunks) |-> enhanced[i].chunk]]
       IN  /\ \E e \in GenerationErrors :
                 LET s2 == [s1 EXCEPT !.final_response = "Error generating response: " \o e,
                                      !.confidence = 0]
                     s3 == Put(s2, "related_concepts", {})
                 IN  state' = Log(s3, "Error in response generation: " \o e)
           /\ calls' = Append(calls, [fn |-> "generate_insights", query |-> state.query,
                                      context_chunks |-> enhanced_chunks,
                                      domain |-> domain, outcome |-> "raised"])
    /\ pc' = NextStep(pc)
    /\ UNCHANGED <<query_response, directVars, graphVars>>

\* _validate_response
ValidateResponse ==
    /\ pc = "validate"
    /\ LET response == state.final_response
           s1 == Log(state, "Validating response quality")
           s2 == IF Len(response) < ShortAnswerLen
                 THEN Log(s1, "Response seems short, reduced confidence") ELSE s1
           s3 == IF Contains(Lower(response), "error")
                 THEN Log(s2, "Error detected in response, reduced confidence") ELSE s2
           s4 == Log(s3, "Response validation complete")
       IN  state' = [s4 EXCEPT !.confidence = ValidateConfidence(state.confidence, response)]
    /\ pc' = NextStep(pc)
    /\ UNCHANGED <<query_response, calls, directVars, graphVars>>

\* process_query: _run_graph has returned, the response is built and returned
ReturnQueryResponse ==
    /\ pc = "respond"
    /\ query_response' = BuildResponse(state)
    /\ pc' = "done"
    /\ UNCHANGED <<state, calls, directVars, graphVars>>

QueryRequests == [query : Queries, domain_filter : DomainHints]

InitQuery ==
    /\ \E query_request \in QueryRequests :
         /\ request = query_request
         /\ state = InitialState(query_request)
    /\ pc = Head(WorkflowSteps)
    /\ query_response = NoResponse
    /\ calls = <<>>
    /\ dc = Idle /\ dpc = "idle" /\ comparison_response = NoResponse
    /\ cstate = Idle /\ cpc = "idle" /\ cl = Idle

NextQuery ==
    \/ AnalyzeQuery
    \/ RetrieveDocuments
    \/ RetrieveDocumentsFails
    \/ AnalyzeRelevance
    \/ GenerateResponse
    \/ GenerateResponseFails
    \/ ValidateResponse
    \/ ReturnQueryResponse

SpecQuery == InitQuery /\ [][NextQuery]_vars

----------------------------------------------------------------------------
(* Environment of the comparative agent *)

MaxDocs == 3

\* document ids a request may name
DocIds == {"d1", "d2", "d3", "empty", "bad"}

\* VectorStore.get_document_chunks: "bad" raises, "empty" has no chunk
LoadRaises(doc_id) == doc_id = "bad"

StoreChunks(doc_id) ==
    CASE doc_id = "d1" ->
           << [content |-> "Dental coverage has an annual limit",
               metadata |-> [filename |-> "plan_a.pdf", domain |-> "healthcare"]],
              [content |-> "Definitions and general conditions",
               metadata |-> [filename |-> "plan_a.pdf", domain |-> "healthcare"]] >>
      [] doc_id = "d2" ->
           << [content |-> "Vision BENEFIT schedule",
               metadata |-> [filename |-> "plan_b.pdf", domain |-> "healthcare"]],
              [content |-> "Payment dates",
               metadata |-> [filename |-> "plan_b.pdf", domain |-> "healthcare"]] >>
      [] doc_id = "d3" ->
           << [content |-> "Termination clause for dental cover",
               metadata |-> [filename |-> "lease.pdf", domain |-> "legal"]] >>
      [] OTHER -> <<>>

LoadErrors == {"NotFoundError"}
ComparisonErrors == {"GenerationError"}

\* ComparisonRequest.comparison_type values
ComparisonTypes == {"coverage", "terms", "structure", "general"}

\* ComparisonRequest.focus_areas values (Optional[List[str]]: None is <<>>)
FocusAreas == { <<>>, <<"Dental">> }

\* ComparisonResult values GeminiClient.compare_documents may return
\* (confidence in thousandths)
ComparisonResults ==
    { [similarities |-> <<"Both cover dental">>,
       differences |-> <<"Premiums differ">>,
       key_insights |-> <<"Plan A is cheaper">>,
       overall_analysis |-> "Plan A and plan B overlap.",
       confidence |-> 800],
      [similarities |-> <<"Both have deductibles", "Both cover dental">>,
       differences |-> <<"Premiums differ">>,
       key_insights |-> <<>>,
       overall_analysis |-> "",
       confidence |-> 300] }

\* outcomes of OntologyManager.get_ontology_for_domain
OntologyOutcomes == {"ontology", "none", "raised"}

----------------------------------------------------------------------------
(* Python dicts keep insertion order: a dict is a sequence of entries *)

DictKeys(d) == [i \in 1..Len(d) |-> d[i].key]

HasKey(d, k) == \E i \in 1..Len(d) : d[i].key = k

DictGet(d, k) == d[CHOOSE i \in 1..Len(d) : d[i].key = k].value

\* d[k] = v
DictPut(d, k, v) ==
    IF HasKey(d, k)
    THEN [i \in 1..Len(d) |-> IF d[i].key = k THEN [key |-> k, value |-> v] ELSE d[i]]
    ELSE Append(d, [key |-> k, value |-> v])

\* [f(x) for x in seq]
ChunkContents(chunks) == [i \in 1..Len(chunks) |-> chunks[i].content]

\* content[:3000]
ContentLimit == 3000

\* text[:n]
Truncate(text, n) == SubSeq(text, 1, Min(n, Len(text)))

\* xs or default
OrDefault(xs, default) == IF xs = <<>> THEN default ELSE xs

----------------------------------------------------------------------------
(* ComparativeAgent.compare_documents (the direct two-document path) *)

\* the response of the pre-check when fewer than 2 entries were recorded
InsufficientResponse(document_ids, reasoning_steps) ==
    [ kind |-> "ComparisonResponse",
      comparison_id |-> "insufficient_docs",
      document_ids |-> document_ids,
      similarities |-> <<"Not enough documents available for comparison">>,
      differences |-> <<"Cannot compare with fewer than 2 documents">>,
      insights |-> "Comparison requires at least 2 documents with readable content.",
      comparison_matrix |-> [error |-> "insufficient_documents"],
      confidence |-> 0,
      reasoning_steps |-> reasoning_steps,
      metadata |-> [error |-> "insufficient_documents"] ]

\* ErrorResponse that reports the fallback lists and confidence of a comparison
ErrorResponseWithFallback(document_ids, e) ==
    [ kind |-> "ComparisonResponse",
      comparison_id |-> "error",
      document_ids |-> document_ids,
      similarities |-> <<"Documents share common structural elements">>,
      differences |-> <<"Documents have distinct characteristics">>,
      insights |-> "Error performing comparison: " \o e,
      comparison_matrix |-> <<>>,
      confidence |-> 300,
      reasoning_steps |-> <<"Error: " \o e>>,
      metadata |-> [error |-> e] ]

\* the response of the outer except clause
ErrorResponse(document_ids, e) ==
    [ kind |-> "ComparisonResponse",
      comparison_id |-> "error",
      document_ids |-> document_ids,
      similarities |-> <<>>,
      differences |-> <<>>,
      insights |-> "Error performing comparison: " \o e,
      comparison_matrix |-> <<>>,
      confidence |-> 0,
      reasoning_steps |-> <<"Error: " \o e>>,
      metadata |-> [error |-> e] ]

\* the enhanced_insights narrative
EnhancedInsights(doc1_name, doc2_name, domain, comparison_result, focus_areas) ==
    "**Comparison Summary:** Comparing \"" \o doc1_name \o "\" and \"" \o doc2_name
    \o "\" (" \o domain \o " documents) " \o comparison_result.overall_analysis
    \o " **Key Takeaways:** "
    \o (IF comparison_result.key_insights # <<>>
        THEN Join(" ", comparison_result.key_insights)
        ELSE "This comparison reveals important similarities and differences that could impact your decision-making.")
    \o " **Recommendation:** Review the specific differences highlighted above, particularly focusing on "
    \o (IF focus_areas # <<>> THEN Join(", ", focus_areas)
        ELSE "the key areas of variation")
    \o " to make an informed choice between these options."

\* the response built from a returned ComparisonResult
SuccessResponse(req, locals, comparison_result) ==
    LET doc_ids == locals.doc_ids
        meta1 == DictGet(locals.document_metadata, doc_ids[1])
        meta2 == DictGet(locals.document_metadata, doc_ids[2])
    IN  [ kind |-> "ComparisonResponse",
          comparison_id |-> "comp_" \o Join("", req.document_ids),
          document_ids |-> req.document_ids,
          similarities |-> OrDefault(comparison_result.similarities,
                               <<"Documents share common structural elements">>),
          differences |-> OrDefault(comparison_result.differences,
                               <<"Documents have distinct characteristics">>),
          insights |-> EnhancedInsights(meta1.filename, meta2.filename, locals.domain,
                                        comparison_result, req.focus_areas),
          comparison_matrix |-> [ comparison_type |-> req.comparison_type,
                                  method |-> "ai_enhanced",
                                  documents |-> <<[key |-> doc_ids[1], value |-> meta1],
                                                  [key |-> doc_ids[2], value |-> meta2]>>,
                                  focus_areas |-> req.focus_areas,
                                  ontology_context |-> locals.ontology_context ],
          confidence |-> comparison_result.confidence,
          reasoning_steps |-> locals.reasoning_steps \o
                <<"Generated AI-powered comparison analysis",
                  "Enhanced insights with ontological context",
                  "Completed comprehensive document comparison">>,
          metadata |-> [ comparison_type |-> req.comparison_type,
                         focus_areas |-> req.focus_areas,
                         documents_analyzed |-> Len(locals.document_contents),
                         domain |-> locals.domain,
                         ai_enhanced |-> TRUE ] ]

\* locals of compare_documents before the load loop
InitialLocals ==
    [ reasoning_steps |-> <<"Starting comprehensive document analysis">>,
      document_contents |-> <<>>,
      document_metadata |-> <<>>,
      next |-> 1,
      doc_ids |-> <<>>,
      domain |-> "",
      ontology_context |-> "" ]

\* what the except clause of the load loop records for a document
FailedLoadContent == ""

\* load loop body, get_document_chunks returns (an empty list records nothing)
LoadDocument ==
    /\ dpc = "load"
    /\ dc.next <= Len(request.document_ids)
    /\ LET doc_id == request.document_ids[dc.next]
           chunks == StoreChunks(doc_id)
       IN  /\ ~LoadRaises(doc_id)
           /\ dc' = IF chunks # <<>>
                    THEN LET metadata == chunks[1].metadata IN
                         [dc EXCEPT
                            !.document_contents = DictPut(@, doc_id,
                                Truncate(Join("\n\n", ChunkContents(chunks)), ContentLimit)),
                            !.document_metadata = DictPut(@, doc_id,
                                [filename |-> metadata.filename, domain |-> metadata.domain]),
                            !.reasoning_steps = Append(@, "Loaded " \o ToString(Len(chunks))
                                                   \o " chunks from " \o metadata.filename),
                            !.next = @ + 1]
                    ELSE [dc EXCEPT !.next = @ + 1]
           /\ calls' = Append(calls, [fn |-> "get_document_chunks", document_id |-> doc_id,
                                      outcome |-> IF chunks # <<>> THEN "chunks" ELSE "empty"])
    /\ UNCHANGED <<request, dpc, comparison_response, ragVars, graphVars>>

\* load loop body, get_document_chunks raises
LoadDocumentFails ==
    /\ dpc = "load"
    /\ dc.next <= Len(request.document_ids)
    /\ LET doc_id == request.document_ids[dc.next] IN
           /\ LoadRaises(doc_id)
           /\ dc' = [dc EXCEPT
                       !.document_contents = DictPut(@, doc_id, FailedLoadContent),
                       !.document_metadata = DictPut(@, doc_id,
                           [filename |-> "Unknown", domain |-> "unknown"]),
                       !.next = @ + 1]
           /\ calls' = Append(calls, [fn |-> "get_document_chunks", document_id |-> doc_id,
                                      outcome |-> "raised"])
    /\ UNCHANGED <<request, dpc, comparison_response, ragVars, graphVars>>

\* the test guarding the insufficient-documents return
TooFewDocuments(document_contents) == Len(document_contents) < 2

\* pre-check fails: the fixed insufficient-documents response is returned
ReturnInsufficient ==
    /\ dpc = "load"
    /\ dc.next > Len(request.document_ids)
    /\ TooFewDocuments(dc.document_contents)
    /\ comparison_response' = InsufficientResponse(request.document_ids,
            Append(dc.reasoning_steps, "Insufficient documents for comparison"))
    /\ dpc' = "done"
    /\ UNCHANGED <<request, dc, calls, ragVars, graphVars>>

\* pre-check passes: the first two recorded documents are selected
SelectDocuments ==
    /\ dpc = "load"
    /\ dc.next > Len(request.document_ids)
    /\ ~TooFewDocuments(dc.document_contents)
    /\ LET doc_ids == Take(DictKeys(dc.document_contents), 2) IN
       dc' = [dc EXCEPT
                !.doc_ids = doc_ids,
                !.domain = DictGet(dc.document_metadata, doc_ids[1]).domain,
                !.reasoning_steps = Append(@, "Analyzing documents with AI comparison engine")]
    /\ dpc' = "ontology"
    /\ UNCHANGED <<request, comparison_response, calls, ragVars, graphVars>>

\* get_ontology_for_domain: a raise is swallowed and leaves the context empty
OntologyLookup ==
    /\ dpc = "ontology"
    /\ \E outcome \in OntologyOutcomes :
         /\ dc' = [dc EXCEPT !.ontology_context =
                      IF outcome = "ontology"
                      THEN "Domain: " \o dc.domain \o ", Focus areas: "
                           \o Join(", ", request.focus_areas)
                      ELSE ""]
         /\ calls' = Append(calls, [fn |-> "get_ontology_for_domain", domain |-> dc.domain,
                                    outcome |-> outcome])
    /\ dpc' = "compare"
    /\ UNCHANGED <<request, comparison_response, ragVars, graphVars>>

\* the arguments of the comparison call
DirectCompareCall(outcome) ==
    [ fn |-> "compare_documents",
      document1_content |-> DictGet(dc.document_contents, dc.doc_ids[1]),
      document2_content |-> DictGet(dc.document_contents, dc.doc_ids[2]),
      outcome |-> outcome ]

\* gemini_client.compare_documents returns
CompareReturns ==
    /\ dpc = "compare"
    /\ \E comparison_result \in ComparisonResults :
         comparison_response' = SuccessResponse(request, dc, comparison_result)
    /\ calls' = Append(calls, DirectCompareCall("returned"))
    /\ dpc' = "done"
    /\ UNCHANGED <<request, dc, ragVars, graphVars>>

\* gemini_client.compare_documents raises: the outer except clause answers
CompareRaises ==
    /\ dpc = "compare"
    /\ \E e \in ComparisonErrors :
         comparison_response' = ErrorResponse(request.document_ids, e)
    /\ calls' = Append(calls, DirectCompareCall("raised"))
    /\ dpc' = "done"
    /\ UNCHANGED <<request, dc, ragVars, graphVars>>

\* sequences of at most n elements of S
SeqUpTo(S, n) == UNION { [1..k -> S] : k \in 0..n }

ComparisonRequests ==
    [ document_ids : SeqUpTo(DocIds, MaxDocs),
      comparison_type : {"general", "coverage"},
      focus_areas : FocusAreas ]

InitDirect ==
    /\ request \in ComparisonRequests
    /\ dc = InitialLocals
    /\ dpc = "load"
    /\ comparison_response = NoResponse
    /\ calls = <<>>
    /\ state = Idle /\ pc = "idle" /\ query_response = NoResponse
    /\ cstate = Idle /\ cpc = "idle" /\ cl = Idle

NextDirect ==
    \/ LoadDocument
    \/ LoadDocumentFails
    \/ ReturnInsufficient
    \/ SelectDocuments
    \/ OntologyLookup
    \/ CompareReturns
    \/ CompareRaises

SpecDirect == InitDirect /\ [][NextDirect]_vars

----------------------------------------------------------------------------
(* The six nodes of the comparison graph (the full N-document pipeline),   *)
(* run in the order of the graph's edges.  A node whose loop awaits a      *)
(* collaborator takes one action per call.                                 *)

AnalysisErrors == {"GenerationError"}

\* AnalysisResult values GeminiClient.analyze_content may return
AnalysisResults ==
    { [summary |-> "A plan summary", key_points |-> <<"annual limit">>,
       insights |-> <<"typical plan">>, confidence |-> 700] }

\* a confidence as an exact fraction
Frac(n, d) == [num |-> n, den |-> d]

\* the state handed to the graph: the request fields and empty results
InitialComparisonState(req) ==
    [ document_ids |-> req.document_ids,
      comparison_type |-> req.comparison_type,
      focus_areas |-> req.focus_areas,
      document_contents |-> <<>>,
      analysis_results |-> <<>>,
      comparison_matrix |-> <<>>,
      final_insights |-> "",
      reasoning_steps |-> <<>>,
      confidence |-> Frac(0, 1) ]

\* locals of a node at its entry
NodeLocals == [next |-> 1, acc |-> <<>>]

\* the entry log line of a node is written before its first call
Entered(msg) == IF cl.next = 1 THEN Log(cstate, msg) ELSE cstate

\* _load_documents: one get_document_chunks call returns
GraphLoadDocument ==
    /\ cpc = "load_documents"
    /\ cl.next <= Len(cstate.document_ids)
    /\ LET doc_id == cstate.document_ids[cl.next]
           chunks == StoreChunks(doc_id)
       IN  /\ ~LoadRaises(doc_id)
           /\ cl' = [next |-> cl.next + 1, acc |-> DictPut(cl.acc, doc_id, chunks)]
           /\ cstate' = Log(Entered("Loading documents for comparison"),
                            "Loaded " \o ToString(Len(chunks)) \o " chunks from document "
                            \o doc_id)
           /\ calls' = Append(calls, [fn |-> "get_document_chunks", document_id |-> doc_id,
                                      outcome |-> IF chunks # <<>> THEN "chunks" ELSE "empty"])
    /\ UNCHANGED <<cpc, ragVars, directVars>>

\* _load_documents: a get_document_chunks call raises, the step's except runs
GraphLoadDocumentFails ==
    /\ cpc = "load_documents"
    /\ cl.next <= Len(cstate.document_ids)
    /\ LET doc_id == cstate.document_ids[cl.next] IN
           /\ LoadRaises(doc_id)
           /\ \E e \in LoadErrors :
                cstate' = Log(Entered("Loading documents for comparison"),
                              "Error loading documents: " \o e)
           /\ calls' = Append(calls, [fn |-> "get_document_chunks", document_id |-> doc_id,
                                      outcome |-> "raised"])
    /\ cl' = NodeLocals
    /\ cpc' = "extract_key_sections"
    /\ UNCHANGED <<ragVars, directVars>>

\* _load_documents: the loop is over, the loaded contents are stored
GraphLoadDone ==
    /\ cpc = "load_documents"
    /\ cl.next > Len(cstate.document_ids)
    /\ cstate' = [Entered("Loading documents for comparison")
                    EXCEPT !.document_contents = cl.acc]
    /\ cl' = NodeLocals
    /\ cpc' = "extract_key_sections"
    /\ UNCHANGED <<calls, ragVars, directVars>>

CoverageTerms == {"coverage", "benefit", "limit", "exclusion"}
TermsTerms == {"term", "condition", "definition", "clause"}

\* KeepChunk with the focus areas ignored
KeepChunkIgnoringFocus(chunk, comparison_type, focus_areas) ==
    LET content_lower == Lower(chunk.content) IN
    CASE comparison_type = "coverage" -> AnyIn(CoverageTerms, content_lower)
      [] comparison_type = "terms" -> AnyIn(TermsTerms, content_lower)
      [] OTHER -> TRUE

\* _extract_key_sections: is the chunk kept
KeepChunk(chunk, comparison_type, focus_areas) ==
    LET content_lower == Lower(chunk.content) IN
    /\ focus_areas # <<>> =>
          \E i \in 1..Len(focus_areas) : Contains(content_lower, Lower(focus_areas[i]))
    /\ CASE comparison_type = "coverage" -> AnyIn(CoverageTerms, content_lower)
         [] comparison_type = "terms" -> AnyIn(TermsTerms, content_lower)
         [] OTHER -> TRUE

RECURSIVE KeptChunks(_, _, _)
KeptChunks(chunks, comparison_type, focus_areas) ==
    IF chunks = <<>> THEN <<>>
    ELSE LET rest == KeptChunks(Tail(chunks), comparison_type, focus_areas) IN
         IF KeepChunk(Head(chunks), comparison_type, focus_areas)
         THEN <<Head(chunks)>> \o rest ELSE rest

\* _extract_key_sections: extracted_sections
ExtractedSections(document_contents, comparison_type, focus_areas) ==
    [i \in 1..Len(document_contents) |->
        [key |-> document_contents[i].key,
         value |-> KeptChunks(document_contents[i].value, comparison_type, focus_areas)]]

\* _extract_key_sections
ExtractKeySections ==
    /\ cpc = "extract_key_sections"
    /\ LET s1 == Log(cstate, "Extracting key sections for comparison")
           s2 == Log(s1, "Extracted relevant sections from all documents")
       IN  cstate' = [s2 EXCEPT !.document_contents =
                         ExtractedSections(cstate.document_contents,
                                           cstate.comparison_type, cstate.focus_areas)]
    /\ cpc' = "perform_analysis"
    /\ UNCHANGED <<cl, calls, ragVars, directVars>>

\* the combined text of a document's chunks, joined by sep
CombinedText(sep, chunks) == Join(sep, ChunkContents(chunks))

\* _perform_analysis: one analyze_content call returns
AnalyzeDocument ==
    /\ cpc = "perform_analysis"
    /\ cl.next <= Len(cstate.document_contents)
    /\ LET entry == cstate.document_contents[cl.next] IN
       /\ \E analysis \in AnalysisResults :
            cl' = [next |-> cl.next + 1, acc |-> DictPut(cl.acc, entry.key, analysis)]
       /\ calls' = Append(calls, [fn |-> "analyze_content",
                                  content |-> CombinedText("\n\n", entry.value),
                                  outcome |-> "returned"])
    /\ cstate' = Entered("Performing detailed document analysis")
    /\ UNCHANGED <<cpc, ragVars, directVars>>

\* _perform_analysis: an analyze_content call raises, the step's except runs
AnalyzeDocumentFails ==
    /\ cpc = "perform_analysis"
    /\ cl.next <= Len(cstate.document_contents)
    /\ LET entry == cstate.document_contents[cl.next] IN
       calls' = Append(calls, [fn |-> "analyze_content",
                               content |-> CombinedText("\n\n", entry.value),
                               outcome |-> "raised"])
    /\ \E e \in AnalysisErrors :
         cstate' = Log(Entered("Performing detailed document analysis"),
                       "Error in analysis: " \o e)
    /\ cl' = NodeLocals
    /\ cpc' = "create_comparison_matrix"
    /\ UNCHANGED <<ragVars, directVars>>

\* _perform_analysis: the loop is over, the summaries are stored
AnalysisDone ==
    /\ cpc = "perform_analysis"
    /\ cl.next > Len(cstate.document_contents)
    /\ LET s1 == Log(Entered("Performing detailed document analysis"),
                     "Completed individual document analysis")
       IN  cstate' = [s1 EXCEPT !.analysis_results =
                         Put(<<>>, "document_summaries", cl.acc)]
    /\ cl' = NodeLocals
    /\ cpc' = "create_comparison_matrix"
    /\ UNCHANGED <<calls, ragVars, directVars>>

\* InnerStart that lets the inner loop begin at i itself
InnerStartSelf(i) == i

\* the first j of the inner loop: range(i + 1, len(doc_ids))
InnerStart(i) == i + 1

\* the (i, j) visited by the two nested loops over n documents, in order
RECURSIVE PairsFrom(_, _, _)
PairsFrom(i, j, n) ==
    IF i > n THEN <<>>
    ELSE IF j > n THEN PairsFrom(i + 1, InnerStart(i + 1), n)
    ELSE <<<<i, j>>>> \o PairsFrom(i, j + 1, n)

\* PairOrder with the pairs visited from the last to the first
PairOrderReversed(n) ==
    LET pairs == PairsFrom(1, InnerStart(1), n)
    IN  [k \in 1..Len(pairs) |-> pairs[Len(pairs) + 1 - k]]

PairOrder(n) == PairsFrom(1, InnerStart(1), n)

\* f"{doc1_id}_vs_{doc2_id}"
PairKey(doc1_id, doc2_id) == doc1_id \o "_vs_" \o doc2_id

\* the record stored for a pair
ComparisonRecord(comparison) ==
    [ similarities |-> comparison.similarities,
      differences |-> comparison.differences,
      insights |-> comparison.key_insights,
      confidence |-> comparison.confidence ]

\* isinstance(comparison, dict) and "similarities" in comparison
IsComparisonRecord(v) == "similarities" \in DOMAIN v

\* the arguments of the comparison call for the pair at cl.next
MatrixCompareCall(outcome) ==
    LET doc_ids == DictKeys(cstate.document_contents)
        pair == PairOrder(Len(doc_ids))[cl.next]
    IN  [ fn |-> "compare_documents",
          doc1_id |-> doc_ids[pair[1]],
          doc2_id |-> doc_ids[pair[2]],
          document1_content |-> CombinedText("\n", DictGet(cstate.document_contents, doc_ids[pair[1]])),
          document2_content |-> CombinedText("\n", DictGet(cstate.document_contents, doc_ids[pair[2]])),
          outcome |-> outcome ]

\* _create_comparison_matrix: fewer than 2 documents
MatrixTooFewDocuments ==
    /\ cpc = "create_comparison_matrix"
    /\ Len(cstate.document_contents) < 2
    /\ cstate' = [Log(cstate, "Creating comparison matrix") EXCEPT
                    !.comparison_matrix =
                        <<[key |-> "error",
                           value |-> [str |-> "Need at least 2 documents for comparison"]]>>]
    /\ cpc' = "generate_insights"
    /\ UNCHANGED <<cl, calls, ragVars, directVars>>

\* _create_comparison_matrix: the comparison call of the next pair returns
ComparePair ==
    /\ cpc = "create_comparison_matrix"
    /\ Len(cstate.document_contents) >= 2
    /\ cl.next <= Len(PairOrder(Len(cstate.document_contents)))
    /\ \E comparison \in ComparisonResults :
         LET call == MatrixCompareCall("returned") IN
         /\ cl' = [next |-> cl.next + 1,
                   acc |-> DictPut(cl.acc, PairKey(call.doc1_id, call.doc2_id),
                                   ComparisonRecord(comparison))]
         /\ calls' = Append(calls, call)
    /\ cstate' = Entered("Creating comparison matrix")
    /\ UNCHANGED <<cpc, ragVars, directVars>>

\* ComparePairFails with the records of the pairs already compared stored
ComparePairFailsKeepingRecords ==
    /\ cpc = "create_comparison_matrix"
    /\ Len(cstate.document_contents) >= 2
    /\ cl.next <= Len(PairOrder(Len(cstate.document_contents)))
    /\ \E e \in ComparisonErrors :
         cstate' = [Log(Entered("Creating comparison matrix"), "Error creating matrix: " \o e)
                      EXCEPT !.comparison_matrix = cl.acc]
    /\ calls' = Append(calls, MatrixCompareCall("raised"))
    /\ cl' = NodeLocals
    /\ cpc' = "generate_insights"
    /\ UNCHANGED <<ragVars, directVars>>

\* _create_comparison_matrix: a comparison call raises, the step's except runs
ComparePairFails ==
    /\ cpc = "create_comparison_matrix"
    /\ Len(cstate.document_contents) >= 2
    /\ cl.next <= Len(PairOrder(Len(cstate.document_contents)))
    /\ \E e \in ComparisonErrors :
         cstate' = Log(Entered("Creating comparison matrix"), "Error creating matrix: " \o e)
    /\ calls' = Append(calls, MatrixCompareCall("raised"))
    /\ cl' = NodeLocals
    /\ cpc' = "generate_insights"
    /\ UNCHANGED <<ragVars, directVars>>

\* _create_comparison_matrix: all pairs compared, the matrix is stored
MatrixDone ==
    /\ cpc = "create_comparison_matrix"
    /\ Len(cstate.document_contents) >= 2
    /\ cl.next > Len(PairOrder(Len(cstate.document_contents)))
    /\ cstate' = [Log(cstate, "Completed " \o ToString(Len(cl.acc)) \o " pairwise comparisons")
                    EXCEPT !.comparison_matrix = cl.acc]
    /\ cl' = NodeLocals
    /\ cpc' = "generate_insights"
    /\ UNCHANGED <<calls, ragVars, directVars>>

Range(seq) == { seq[i] : i \in 1..Len(seq) }

\* DedupLists without the set(): the items as collected
NoDedup(items) == {items}

\* list(set(items)): the distinct items, in any order
DedupLists(items) ==
    LET S == Range(items) IN
    { q \in [1..Cardinality(S) -> S] : Range(q) = S }

\* the field of every comparison record of the matrix, concatenated
RECURSIVE Extended(_, _)
Extended(comparison_matrix, field) ==
    IF comparison_matrix = <<>> THEN <<>>
    ELSE LET comparison == Head(comparison_matrix).value
             rest == Extended(Tail(comparison_matrix), field)
         IN  IF IsComparisonRecord(comparison) THEN comparison[field] \o rest ELSE rest

\* _generate_insights
GenerateInsights ==
    /\ cpc = "generate_insights"
    /\ LET s1 == Log(cstate, "Generating comprehensive insights")
           comparison_matrix == cstate.comparison_matrix
       IN  \E similarities \in DedupLists(Extended(comparison_matrix, "similarities")),
              differences \in DedupLists(Extended(comparison_matrix, "differences")),
              key_insights \in DedupLists(Extended(comparison_matrix, "insights")) :
             cstate' = [Log(s1, "Aggregated insights from all comparisons") EXCEPT
                          !.analysis_results =
                              Put(Put(Put(@, "similarities", similarities),
                                      "differences", differences),
                                  "key_insights", key_insights)]
    /\ cpc' = "synthesize_results"
    /\ UNCHANGED <<cl, calls, ragVars, directVars>>

\* analysis_results.get(key, [])
GetOr(d, key, default) == IF key \in DOMAIN d THEN d[key] ELSE default

\* the confidences of the comparison records of the matrix
RECURSIVE Confidences(_)
Confidences(comparison_matrix) ==
    IF comparison_matrix = <<>> THEN <<>>
    ELSE LET comparison == Head(comparison_matrix).value
             rest == Confidences(Tail(comparison_matrix))
         IN  IF "confidence" \in DOMAIN comparison
             THEN <<comparison.confidence>> \o rest ELSE rest

RECURSIVE Sum(_)
Sum(xs) == IF xs = <<>> THEN 0 ELSE Head(xs) + Sum(Tail(xs))

\* OverallConfidence that forgets the division
OverallConfidenceSum(confidences) ==
    IF confidences # <<>> THEN [num |-> Sum(confidences), den |-> 1]
    ELSE [num |-> 0, den |-> 1]

\* sum(confidences) / len(confidences) if confidences else 0.0
OverallConfidence(confidences) ==
    IF confidences # <<>> THEN Frac(Sum(confidences), Len(confidences)) ELSE Frac(0, 1)

\* items[:10]
MaxReportItems == 10

\* chr(10).join([f"* {x}" for x in items[:10]])
Bullets(items) ==
    LET shown == Take(items, MaxReportItems) IN
    Join("\n", [i \in 1..Len(shown) |-> "* " \o shown[i]])

\* the final_insights report
FinalInsights(similarities, differences, insights, document_ids) ==
    "COMPARISON SUMMARY: Key Similarities (" \o ToString(Len(similarities)) \o " found): "
    \o Bullets(similarities)
    \o " Key Differences (" \o ToString(Len(differences)) \o " found): "
    \o Bullets(differences)
    \o " Important Insights (" \o ToString(Len(insights)) \o " identified): "
    \o Bullets(insights)
    \o " This comparison analyzed " \o ToString(Len(document_ids))
    \o " documents across multiple dimensions."

\* _synthesize_results
SynthesizeResults ==
    /\ cpc = "synthesize_results"
    /\ LET s1 == Log(Log(cstate, "Synthesizing final results"), "Synthesis complete")
           analysis_results == cstate.analysis_results
       IN  cstate' = [s1 EXCEPT
                        !.final_insights =
                            FinalInsights(GetOr(analysis_results, "similarities", <<>>),
                                          GetOr(analysis_results, "differences", <<>>),
                                          GetOr(analysis_results, "key_insights", <<>>),
                                          cstate.document_ids),
                        !.confidence = OverallConfidence(Confidences(cstate.comparison_matrix))]
    /\ cpc' = "END"
    /\ UNCHANGED <<cl, calls, ragVars, directVars>>

\* requests given to the graph: every id list for a general comparison, and
\* every comparison type and focus for the two- and three-document lists
GraphRequests ==
    { r \in [ document_ids : SeqUpTo(DocIds, MaxDocs),
              comparison_type : ComparisonTypes,
              focus_areas : FocusAreas ] :
        \/ r.comparison_type = "general" /\ r.focus_areas = <<>>
        \/ r.document_ids \in { <<"d1", "d2">>, <<"d1", "d2", "d3">> } }

InitGraph ==
    /\ \E req \in GraphRequests : cstate = InitialComparisonState(req)
    /\ cpc = "load_documents"
    /\ cl = NodeLocals
    /\ calls = <<>>
    /\ state = Idle /\ pc = "idle" /\ query_response = NoResponse
    /\ request = Idle /\ dc = Idle /\ dpc = "idle" /\ comparison_response = NoResponse

NextGraph ==
    \/ GraphLoadDocument
    \/ GraphLoadDocumentFails
    \/ GraphLoadDone
    \/ ExtractKeySections
    \/ AnalyzeDocument
    \/ AnalyzeDocumentFails
    \/ AnalysisDone
    \/ MatrixTooFewDocuments
    \/ ComparePair
    \/ ComparePairFails
    \/ MatrixDone
    \/ GenerateInsights
    \/ SynthesizeResults

SpecGraph == InitGraph /\ [][NextGraph]_vars

----------------------------------------------------------------------------
(* Properties of the query agent, checked under SpecQuery *)

\* the collaborator call fn was issued and raised
CallRaised(fn) ==
    \E i \in 1..Len(calls) : calls[i].fn = fn /\ calls[i].outcome = "raised"

\* the collaborator calls to fn issued so far
CallsTo(fn) == { i \in 1..Len(calls) : calls[i].fn = fn }

\* the log holds the entry
Logged(log, entry) == \E i \in 1..Len(log) : log[i] = entry

\* C1: for every query, domain hint and pattern of retrieval/generation
\* failures, process_query ends by returning a QueryResponse (every failure
\* is absorbed by the step it occurs in, the workflow always reaches its
\* next step) and the confidence, in the state and in the response, lies in
\* [0.0, 1.0].
C1_ProcessQueryReturnsConfidenceInRange ==
    /\ state.confidence >= 0 /\ state.confidence <= 1000
    /\ pc \in {"analyze", "retrieve", "filter", "generate", "validate", "respond", "done"}
    /\ pc # "done" => query_response = NoResponse
    /\ pc = "done" =>
          /\ query_response.kind = "QueryResponse"
          /\ query_response.confidence >= 0 /\ query_response.confidence <= 1000

\* both collaborators raised and a response with confidence 0.0 was returned
C1_Witness ==
    /\ pc = "done"
    /\ CallRaised("query_similar") /\ CallRaised("generate_insights")
    /\ query_response.kind = "QueryResponse"
    /\ query_response.confidence = 0

\* no chunk of the sequence passes the distance test
NonePasses(chunks) ==
    \A i \in 1..Len(chunks) :
        chunks[i].distance # NoDistance /\ chunks[i].distance >= 20

\* C5: the filter step never leaves retrieved_chunks empty when it received
\* a non-empty chunk list, and when no chunk passes the distance test it
\* keeps the first 3 unfiltered chunks.
C5_FilterNeverStarves ==
    [][ pc = "filter" /\ state.retrieved_chunks # <<>> =>
          /\ state'.retrieved_chunks # <<>>
          /\ NonePasses(state.retrieved_chunks) =>
                state'.retrieved_chunks =
                    SubSeq(state.retrieved_chunks, 1, Min(3, Len(state.retrieved_chunks)))
      ]_vars

\* the filter ran on four retrieved chunks none of which passed, and kept 3
C5_Witness ==
    /\ pc = "generate"
    /\ Logged(state.reasoning_steps, "Retrieved 4 relevant chunks")
    /\ Len(state.retrieved_chunks) = 3
    /\ NonePasses(state.retrieved_chunks)

\* C6: once the filter step has run, retrieved_chunks holds at most 5 chunks.
C6_AtMostFiveChunks ==
    pc \in {"generate", "validate", "respond", "done"} =>
        Len(state.retrieved_chunks) <= 5

\* six chunks were retrieved, all six passed the test, five were kept
C6_Witness ==
    /\ pc = "generate"
    /\ Logged(state.reasoning_steps, "Retrieved 6 relevant chunks")
    /\ Logged(state.reasoning_steps, "Filtered to 6 highly relevant chunks")
    /\ Len(state.retrieved_chunks) = 5

\* C7: with no domain hint the Analyze step sets the domain by first match
\* in the order healthcare, legal, financial: a query containing "insurance"
\* yields healthcare, one containing "contract" (and no healthcare word, which
\* is tested first) yields legal, one with no trigger word yields general.
C7_DomainFirstMatch ==
    [][ pc = "analyze" /\ state.domain = None =>
          LET q == Lower(state.query)
              h == AnyIn({"insurance", "coverage", "medical", "health"}, q)
              l == AnyIn({"contract", "legal", "agreement", "terms"}, q)
              f == AnyIn({"financial", "investment", "portfolio", "budget"}, q)
          IN  /\ Contains(q, "insurance") => state'.domain = "healthcare"
              /\ Contains(q, "contract") /\ ~h => state'.domain = "legal"
              /\ ~h /\ ~l /\ ~f => state'.domain = "general"
              /\ h => state'.domain = "healthcare"
              /\ ~h /\ l => state'.domain = "legal"
              /\ ~h /\ ~l /\ f => state'.domain = "financial"
      ]_vars

\* Analyze ran on a query holding "contract" and no "insurance" and stored
\* legal (the hints are None and healthcare, so the hint was None and the
\* domain was detected)
C7_Witness ==
    /\ pc = "retrieve"
    /\ Contains(Lower(state.query), "contract")
    /\ ~Contains(Lower(state.query), "insurance")
    /\ state.domain = "legal"

\* C8: the Validate step never increases confidence, and no step after
\* Generate raises it: the response carries the validated value.
C8_ValidationNonIncreasing ==
    [][ /\ pc = "validate" => state'.confidence <= state.confidence
        /\ pc = "respond" => /\ state'.confidence <= state.confidence
                             /\ query_response'.confidence <= state.confidence
      ]_vars

\* Validate halved a generated confidence of 0.9
C8_Witness ==
    /\ pc = "respond"
    /\ ~CallRaised("generate_insights")
    /\ Len(state.retrieved_chunks) = 4
    /\ state.confidence = 450

----------------------------------------------------------------------------
(* Properties of compare_documents, checked under SpecDirect *)

ResponseFields ==
    {"kind", "comparison_id", "document_ids", "similarities", "differences",
     "insights", "comparison_matrix", "confidence", "reasoning_steps", "metadata"}

\* C2: compare_documents never raises: whatever the document ids and the
\* failures of the retrieval, ontology and comparison collaborators, it
\* always proceeds to a returned ComparisonResponse with every field, and
\* when the comparison call raises the response has confidence 0.0, empty
\* similarities and differences, and insights describing the error.
C2_CompareDocumentsNeverRaises ==
    /\ dpc # "done" => comparison_response = NoResponse /\ ENABLED NextDirect
    /\ dpc = "done" =>
          /\ DOMAIN comparison_response = ResponseFields
          /\ comparison_response.kind = "ComparisonResponse"
          /\ comparison_response.document_ids = request.document_ids
          /\ comparison_response.reasoning_steps # <<>>
          /\ CallRaised("compare_documents") =>
                /\ comparison_response.confidence = 0
                /\ comparison_response.similarities = <<>>
                /\ comparison_response.differences = <<>>
                /\ \E e \in ComparisonErrors :
                      comparison_response.insights = "Error performing comparison: " \o e

\* a load raised, the ontology lookup raised, the comparison raised, and the
\* error response was returned
C2_Witness ==
    /\ dpc = "done"
    /\ CallRaised("get_document_chunks")
    /\ CallRaised("get_ontology_for_domain")
    /\ CallRaised("compare_documents")
    /\ comparison_response.comparison_id = "error"

\* requested documents whose load returned chunks
ResolvedDocuments ==
    { calls[i].document_id :
        i \in { j \in CallsTo("get_document_chunks") : calls[j].outcome = "chunks" } }

\* C3: if fewer than 2 of the requested documents resolve to non-empty
\* content (documents whose load raises included), compare_documents returns
\* the fixed insufficient-documents response with confidence 0.0 and issues
\* no comparison call.
C3_InsufficientWhenFewerThanTwoResolve ==
    dpc = "done" /\ Cardinality(ResolvedDocuments) < 2 =>
        /\ comparison_response.comparison_id = "insufficient_docs"
        /\ comparison_response.confidence = 0
        /\ CallsTo("compare_documents") = {}

----------------------------------------------------------------------------
(* Properties of the comparison graph, checked under SpecGraph *)

AfterMatrix == cpc \in {"generate_insights", "synthesize_results", "END"}

AfterAggregation == cpc \in {"synthesize_results", "END"}

\* every requested document resolves to content
AllResolve ==
    \A i \in 1..Len(cstate.document_ids) :
        /\ ~LoadRaises(cstate.document_ids[i])
        /\ StoreChunks(cstate.document_ids[i]) # <<>>

\* the requested ids are pairwise distinct
DistinctIds ==
    \A i, j \in 1..Len(cstate.document_ids) :
        i # j => cstate.document_ids[i] # cstate.document_ids[j]

\* number of entries of the comparison matrix
MatrixSize == Len(cstate.comparison_matrix)

PairwiseStrings(field) ==
    UNION { Range(cstate.comparison_matrix[a].value[field]) :
              a \in { b \in 1..MatrixSize :
                        "similarities" \in DOMAIN cstate.comparison_matrix[b].value } }

NoDuplicates(seq) == \A i, j \in 1..Len(seq) : i # j => seq[i] # seq[j]

\* C9: after the aggregation step each of the aggregated similarities,
\* differences and key-insights lists has no duplicate entry and holds
\* exactly the strings of the corresponding field of the pairwise records,
\* whatever the order of the pairs.
C9_AggregatesAreDeduplicatedUnions ==
    AfterAggregation =>
        LET r == cstate.analysis_results IN
        /\ {"similarities", "differences", "key_insights"} \subseteq DOMAIN r
        /\ NoDuplicates(r["similarities"])
        /\ NoDuplicates(r["differences"])
        /\ NoDuplicates(r["key_insights"])
        /\ Range(r["similarities"]) = PairwiseStrings("similarities")
        /\ Range(r["differences"]) = PairwiseStrings("differences")
        /\ Range(r["key_insights"]) = PairwiseStrings("insights")

\* three records were aggregated, the same similarity occurring in several
C9_Witness ==
    /\ AfterAggregation
    /\ MatrixSize = 3
    /\ \A a \in 1..MatrixSize :
          "Both cover dental" \in Range(cstate.comparison_matrix[a].value.similarities)
    /\ Len(cstate.analysis_results["similarities"]) = 2

\* the confidences of the comparison records of the matrix, as a bag
RecordIndices ==
    { b \in 1..MatrixSize : "confidence" \in DOMAIN cstate.comparison_matrix[b].value }

RECURSIVE TotalConfidence(_)
TotalConfidence(indices) ==
    IF indices = {} THEN 0
    ELSE LET a == CHOOSE x \in indices : TRUE IN
         cstate.comparison_matrix[a].value.confidence + TotalConfidence(indices \ {a})

\* C10: after the synthesis step the overall confidence is the arithmetic
\* mean of the confidences of the records of the matrix, exactly 0.0 when the
\* matrix holds no pair record, and the pair's confidence when it holds one.
C10_ConfidenceIsMean ==
    cpc = "END" =>
        LET c == cstate.confidence
            n == Cardinality(RecordIndices)
        IN  /\ c.den > 0
            /\ n = 0 => c.num = 0
            /\ n > 0 => c.num * n = TotalConfidence(RecordIndices) * c.den
            /\ n = 1 => \A a \in RecordIndices :
                          c.num = cstate.comparison_matrix[a].value.confidence * c.den

\* three records with confidences 0.8, 0.8 and 0.3 were averaged
C10_Witness ==
    /\ cpc = "END"
    /\ Cardinality(RecordIndices) = 3
    /\ TotalConfidence(RecordIndices) = 1900
    /\ cstate.confidence.num * 3 = 1900 * cstate.confidence.den

----------------------------------------------------------------------------
(* The premium scenario of the query agent, checked under SpecQuery *)

\* the request of the scenario: the premium query with no domain hint
ScenarioRequest ==
    [query |-> "What is the monthly premium?", domain_filter |-> None]

\* the chunks of the scenario retrieval whose distance is below 2.0
ScenarioKept ==
    <<ScenarioChunks[1], ScenarioChunks[2], ScenarioChunks[3], ScenarioChunks[5]>>

\* the insight of the cost keyword group (premium, cost, price, pay)
CostInsight == InsightRules[1].insight

\* the Generate step is about to run on the scenario: the scenario request,
\* the six-chunk retrieval, and its filter result in the state
ScenarioAtGenerate ==
    /\ request = ScenarioRequest
    /\ pc = "generate"
    /\ Logged(state.reasoning_steps, "Retrieved 6 relevant chunks")
    /\ state.retrieved_chunks = ScenarioKept

\* the step taken issued the generation call and the call returned
GenerationReturned ==
    /\ Len(calls') = Len(calls) + 1
    /\ calls'[Len(calls')].fn = "generate_insights"
    /\ calls'[Len(calls')].outcome = "returned"

\* the ontology context handed to the generation call with the chunks
HandedContext == calls'[Len(calls')].context_chunks[1].ontology_context

\* C11 as stated: in the premium scenario the detected domain is
\* "healthcare", the filter keeps the 4 chunks with distance < 2.0, the
\* knowledge lookup finds the cost insight, and the confidence after
\* Generate is 0.9.
C11_Original ==
    [][ request = ScenarioRequest =>
          /\ pc = "analyze" => state'.domain = "healthcare"
          /\ pc = "filter" /\ state.retrieved_chunks = ScenarioChunks =>
                state'.retrieved_chunks = ScenarioKept
          /\ ScenarioAtGenerate /\ GenerationReturned =>
                /\ Contains(HandedContext, CostInsight)
                /\ state'.confidence = 900
      ]_vars

\* C11: in the premium scenario (query "What is the monthly premium?", no
\* domain hint, six chunks at distances 0.1, 0.3, 1.9, 2.5, 0.2, 3.0) the
\* query holds no domain keyword so the detected domain is "general", the
\* filter keeps the 4 chunks with distance < 2.0, the knowledge lookup,
\* whose keyword groups apply to the healthcare domain only, finds no
\* insight, and the confidence after Generate is 0.8.
C11_PremiumScenario ==
    [][ request = ScenarioRequest =>
          /\ pc = "analyze" => state'.domain = "general"
          /\ pc = "filter" /\ state.retrieved_chunks = ScenarioChunks =>
                state'.retrieved_chunks = ScenarioKept
          /\ ScenarioAtGenerate /\ GenerationReturned =>
                /\ HandedContext = ""
                /\ state'.confidence = 800
      ]_vars

\* Generate has succeeded on the scenario and left the confidence 0.8
C11_Witness ==
    /\ request = ScenarioRequest
    /\ pc = "validate"
    /\ ~CallRaised("generate_insights")
    /\ Logged(state.reasoning_steps, "Retrieved 6 relevant chunks")
    /\ state.retrieved_chunks = ScenarioKept
    /\ state.domain = "general"
    /\ state.confidence = 800

----------------------------------------------------------------------------
(* The reasoning-step log of the query agent, checked under SpecQuery *)

\* text.startswith(prefix)
StartsWith(text, prefix) ==
    Len(text) >= Len(prefix) /\ SubSeq(text, 1, Len(prefix)) = prefix

\* the workflow step (1 analyze .. 5 validate) whose code writes the entry,
\* 0 for a text no step writes
StepOf(entry) ==
    CASE entry = "Analyzing query intent and domain" -> 1
      [] StartsWith(entry, "Identified domain: ") -> 1
      [] StartsWith(entry, "Error in query analysis: ") -> 1
      [] entry = "Retrieving relevant documents" -> 2
      [] StartsWith(entry, "Retrieved ") -> 2
      [] StartsWith(entry, "Error in document retrieval: ") -> 2
      [] entry = "Analyzing relevance of retrieved content" -> 3
      [] StartsWith(entry, "Filtered to ") -> 3
      [] StartsWith(entry, "Error in relevance analysis: ") -> 3
      [] entry = "Generating response using AI analysis with ontological reasoning" -> 4
      [] entry = "Generated comprehensive response with ontological insights" -> 4
      [] StartsWith(entry, "Error in response generation: ") -> 4
      [] entry = "Validating response quality" -> 5
      [] entry = "Response seems short, reduced confidence" -> 5
      [] entry = "Error detected in response, reduced confidence" -> 5
      [] entry = "Response validation complete" -> 5
      [] StartsWith(entry, "Error in response validation: ") -> 5
      [] OTHER -> 0

\* the number of workflow steps that have run when the workflow is at pc
StepsRun ==
    CASE pc = "analyze" -> 0 [] pc = "retrieve" -> 1 [] pc = "filter" -> 2
      [] pc = "generate" -> 3 [] pc = "validate" -> 4 [] OTHER -> 5

\* every entry of the log was written by a step, and no entry of a later
\* step precedes an entry of an earlier step
InStepOrder(log) ==
    /\ \A i \in 1..Len(log) : StepOf(log[i]) \in 1..5
    /\ \A i, j \in 1..Len(log) : i < j => StepOf(log[i]) <= StepOf(log[j])

\* C12: within one process_query request the reasoning-step log reflects
\* execution order: every entry written by a step comes after all entries
\* of earlier steps and before all entries of later steps, the log holds
\* entries of the steps that have run only, and the returned response
\* carries the log in that order; also when retrieval or generation fails.
C12_LogReflectsExecutionOrder ==
    /\ InStepOrder(state.reasoning_steps)
    /\ \A i \in 1..Len(state.reasoning_steps) :
           StepOf(state.reasoning_steps[i]) <= StepsRun
    /\ \A k \in 1..StepsRun :
           \E i \in 1..Len(state.reasoning_steps) : StepOf(state.reasoning_steps[i]) = k
    /\ pc = "done" => query_response.reasoning_steps = state.reasoning_steps

\* a response was returned after both the retrieval and the generation
\* call raised, its log holding the two failure entries
C12_Witness ==
    /\ pc = "done"
    /\ Logged(query_response.reasoning_steps, "Error in document retrieval: RetrievalError")
    /\ Logged(query_response.reasoning_steps, "Error in response generation: GenerationError")
    /\ Len(query_response.reasoning_steps) >= 10

----------------------------------------------------------------------------
(* Failures inside the steps of the query agent, checked under SpecQuery *)

\* the answer tells the caller that something failed: it carries the word
\* "error", as every answer the agent's except branches write does
ExplainsFailure(answer) == Contains(Lower(answer), "error")

\* C13: whenever a step of process_query failed internally (here: the
\* retrieval call or the generation call raised), the returned response has
\* confidence 0.0 and an answer that explains the failure.
C13_FailureGivesExplanatoryAnswer ==
    pc = "done" /\ (CallRaised("query_similar") \/ CallRaised("generate_insights")) =>
        /\ query_response.confidence = 0
        /\ ExplainsFailure(query_response.answer)

----------------------------------------------------------------------------
(* Termination of a request.  One request is served: either a query by     *)
(* process_query or a comparison by compare_documents.  Both run their     *)
(* steps sequentially, and every awaited collaborator call returns or      *)
(* raises, so a step that can be taken is eventually taken.                *)

\* the queries of the termination check: one with a healthcare keyword and
\* an insight keyword, one with no keyword at all
TerminationQueries == {"What is the health premium?", "hello"}

InitRequests ==
    \/ InitQuery /\ request.query \in TerminationQueries
    \/ InitDirect

NextRequests == NextQuery \/ NextDirect

\* The workflow does not stay at a step forever.  For retrieve and generate
\* the two outcomes of the awaited call are enabled in the same states
\* (pc is at the step), so weak fairness of the raising outcome excludes
\* exactly the behaviours that never leave the step.
QueryStepEnds ==
    \/ AnalyzeQuery
    \/ RetrieveDocumentsFails
    \/ AnalyzeRelevance
    \/ GenerateResponseFails
    \/ ValidateResponse
    \/ ReturnQueryResponse

SpecRequests ==
    /\ InitRequests /\ [][NextRequests]_vars
    /\ WF_vars(QueryStepEnds)
    /\ WF_vars(NextDirect)

\* the caller holds the response of the request
Delivered ==
    \/ pc = "done" /\ query_response.kind = "QueryResponse"
    \/ dpc = "done" /\ comparison_response.kind = "ComparisonResponse"

\* position of process_query in its sequence of steps
QueryRank ==
    CASE pc = "analyze" -> 1 [] pc = "retrieve" -> 2 [] pc = "filter" -> 3
      [] pc = "generate" -> 4 [] pc = "validate" -> 5 [] pc = "respond" -> 6
      [] pc = "done" -> 7 [] OTHER -> 0

\* position of compare_documents in its sequence of phases
DirectRank ==
    CASE dpc = "load" -> 1 [] dpc = "ontology" -> 2 [] dpc = "compare" -> 3
      [] dpc = "done" -> 4 [] OTHER -> 0

\* C14: provided every collaborator call eventually returns or raises, each
\* process_query and each compare_documents request eventually delivers a
\* response to its caller, and exactly one: the response is set once, on
\* the step that ends the request.  No step is re-entered and nothing
\* loops: every step taken moves the request to a later position (inside
\* the load phase of compare_documents, to the next document id).
C14_EveryRequestDeliversOneResponse ==
    /\ <>Delivered
    /\ [][ /\ pc # "idle" => QueryRank' > QueryRank
           /\ dpc # "idle" =>
                 \/ DirectRank' > DirectRank
                 \/ DirectRank' = DirectRank /\ dpc = "load" /\ dc'.next > dc.next
           /\ query_response' # query_response =>
                 query_response = NoResponse /\ pc' = "done"
           /\ comparison_response' # comparison_response =>
                 comparison_response = NoResponse /\ dpc' = "done"
         ]_vars

\* a comparison was delivered after one of its three documents failed to
\* load and the comparison call raised
C14_Witness ==
    /\ dpc = "done"
    /\ Len(request.document_ids) = 3
    /\ CallRaised("compare_documents")
    /\ \E i \in 1..Len(calls) :
          calls[i].fn = "get_document_chunks" /\ calls[i].outcome = "raised"
    /\ comparison_response.kind = "ComparisonResponse"

----------------------------------------------------------------------------
(* The step sequence of the query agent, checked under SpecQuery *)

\* the entry each step writes first, before anything in it can fail
StepMarkers ==
    << "Analyzing query intent and domain",
       "Retrieving relevant documents",
       "Analyzing relevance of retrieved content",
       "Generating response using AI analysis with ontological reasoning",
       "Validating response quality" >>

\* the positions of the log that hold the entry
Occurrences(log, entry) == { i \in 1..Len(log) : log[i] = entry }

\* C15: for every request the five steps analyze, retrieve, filter,
\* generate, validate each run exactly once and in that order: at every
\* point the steps that have run are a prefix of the sequence, each has
\* left its opening entry exactly once, in sequence order, and the steps
\* still to come have left none.  A failure caught inside retrieve or
\* generate changes none of this: the later steps still run, and the
\* response is built after all five.
C15_FiveStepsOnceInOrder ==
    /\ \A k \in 1..5 :
          Cardinality(Occurrences(state.reasoning_steps, StepMarkers[k]))
              = IF k <= StepsRun THEN 1 ELSE 0
    /\ \A k \in 1..4 :
          \A i \in Occurrences(state.reasoning_steps, StepMarkers[k]) :
            \A j \in Occurrences(state.reasoning_steps, StepMarkers[k + 1]) : i < j
    /\ pc = "done" =>
          \A k \in 1..5 :
            Cardinality(Occurrences(query_response.reasoning_steps, StepMarkers[k])) = 1

\* retrieval raised, and the filter, generate and validate steps still ran,
\* the filter on the empty chunk list the failed retrieval left
C15_Witness ==
    /\ pc = "done"
    /\ CallRaised("query_similar")
    /\ Logged(query_response.reasoning_steps, "Filtered to 0 highly relevant chunks")
    /\ Logged(query_response.reasoning_steps, "Generated comprehensive response with ontological insights")
    /\ Logged(query_response.reasoning_steps, "Response validation complete")

----------------------------------------------------------------------------
(* reasoning_steps as an append-only log, checked under SpecQuery *)

\* new is old followed by at least one more entry
StrictlyExtends(new, old) ==
    /\ Len(new) > Len(old)
    /\ SubSeq(new, 1, Len(old)) = old

\* C16: in the query pipeline reasoning_steps is append-only and every step
\* appends at least one entry, on success and on failure: the log after a
\* step is the log before it followed by one or more entries, and building
\* the response leaves the log as it is.
C16_LogIsAppendOnly ==
    [][ /\ pc \in {"analyze", "retrieve", "filter", "generate", "validate"} =>
              StrictlyExtends(state'.reasoning_steps, state.reasoning_steps)
        /\ pc = "respond" => state'.reasoning_steps = state.reasoning_steps
      ]_vars

\* the generate step has just failed: its two entries, the opening one and
\* the failure one, end the log, after the six entries of the earlier steps
C16_Witness ==
    /\ pc = "validate"
    /\ CallRaised("generate_insights")
    /\ Len(state.reasoning_steps) = 8
    /\ state.reasoning_steps[7] = StepMarkers[4]
    /\ state.reasoning_steps[8] = "Error in response generation: GenerationError"

----------------------------------------------------------------------------
(* The result of the relevance filter, checked under SpecQuery *)

\* positions of the chunks whose distance is absent or strictly below 2.0
Qualifying(chunks) ==
    { i \in 1..Len(chunks) :
        chunks[i].distance = NoDistance \/ chunks[i].distance < 20 }

\* the k-th smallest position of the set
KthOf(positions, k) ==
    CHOOSE i \in positions : Cardinality({ j \in positions : j < i }) = k - 1

\* C17: the relevance filter stores, in retrieval order, the first at most
\* 5 of the chunks whose distance is absent or strictly below 2.0 (a
\* distance of exactly 2.0 is rejected); only when no chunk qualifies and
\* the input is non-empty does it store the first 3 input chunks.
C17_FilterResult ==
    [][ pc = "filter" =>
          LET chunks == state.retrieved_chunks
              kept == state'.retrieved_chunks
              q == Qualifying(chunks)
          IN  IF q = {}
              THEN kept = SubSeq(chunks, 1, IF Len(chunks) < 3 THEN Len(chunks) ELSE 3)
              ELSE /\ Len(kept) = IF Cardinality(q) < 5 THEN Cardinality(q) ELSE 5
                   /\ \A k \in 1..Len(kept) : kept[k] = chunks[KthOf(q, k)]
      ]_vars

\* six chunks were retrieved, one of them at distance exactly 2.0: the
\* filter counted the five others and kept them, not the one at 2.0
C17_Witness ==
    /\ pc = "generate"
    /\ Logged(state.reasoning_steps, "Retrieved 6 relevant chunks")
    /\ Logged(state.reasoning_steps, "Filtered to 5 highly relevant chunks")
    /\ Len(state.retrieved_chunks) = 5
    /\ \A i \in 1..5 : state.retrieved_chunks[i].distance # 20
    /\ \E i \in 1..5 : state.retrieved_chunks[i].distance = NoDistance

----------------------------------------------------------------------------
(* retrieved_chunks after the relevance filter, checked under SpecQuery *)

\* the step taken issued the generation call (which returned or raised)
GenerationCalled ==
    /\ Len(calls') = Len(calls) + 1
    /\ calls'[Len(calls')].fn = "generate_insights"

\* C18: once the relevance filter has run the length of retrieved_chunks
\* never increases: the filter does not lengthen the list, the Generate
\* and Validate steps and the building of the response leave
\* retrieved_chunks unchanged, and the enrichment of Generate goes to
\* copies: the chunks handed to the generation call carry the ontology
\* context, the stored chunks do not.
C18_RetrievedChunksFrame ==
    [][ /\ pc = "filter" => Len(state'.retrieved_chunks) <= Len(state.retrieved_chunks)
        /\ pc \in {"generate", "validate", "respond"} =>
              state'.retrieved_chunks = state.retrieved_chunks
        /\ pc = "generate" =>
              /\ GenerationCalled
              /\ LET handed == calls'[Len(calls')].context_chunks IN
                  /\ Len(handed) = Len(state.retrieved_chunks)
                  /\ \A i \in 1..Len(handed) :
                        /\ "ontology_context" \in DOMAIN handed[i]
                        /\ "ontology_context" \notin DOMAIN state'.retrieved_chunks[i]
                        /\ \A f \in DOMAIN state.retrieved_chunks[i] :
                              handed[i][f] = state.retrieved_chunks[i][f]
      ]_vars

\* Generate has handed five enriched chunks with a non-empty ontology
\* context to the generation call, and the state still holds five chunks
\* without it
C18_Witness ==
    /\ pc = "validate"
    /\ Len(state.retrieved_chunks) = 5
    /\ \A i \in 1..5 : "ontology_context" \notin DOMAIN state.retrieved_chunks[i]
    /\ \E c \in CallsTo("generate_insights") :
          /\ Len(calls[c].context_chunks) = 5
          /\ calls[c].context_chunks[1].ontology_context # ""

----------------------------------------------------------------------------
(* The confidence set by Generate, checked under SpecQuery *)

\* C19: when the Generate step succeeds it sets
\*   confidence = min(1.0, min(1.0, chunk_count * 0.2) + boost)
\* where chunk_count is the number of chunks that survived the filter and
\* boost is 0.1 if a contextual insight was found (the ontology context
\* handed to the generation call with the chunks is non-empty) and 0
\* otherwise; with no chunk there is nothing to look up and no boost.
C19_GenerateConfidenceFormula ==
    [][ pc = "generate" /\ GenerationReturned =>
          LET chunk_count == Len(state.retrieved_chunks)
              found == chunk_count > 0 /\ HandedContext # ""
              base == IF chunk_count * 200 < 1000 THEN chunk_count * 200 ELSE 1000
              boost == IF found THEN 100 ELSE 0
          IN  state'.confidence = IF base + boost < 1000 THEN base + boost ELSE 1000
      ]_vars

\* Generate succeeded on five chunks with an insight found: 1.0 + 0.1 was
\* cut to 1.0
C19_Witness ==
    /\ pc = "validate"
    /\ ~CallRaised("generate_insights")
    /\ Len(state.retrieved_chunks) = 5
    /\ \E c \in CallsTo("generate_insights") :
          calls[c].context_chunks[1].ontology_context # ""
    /\ state.confidence = 1000

----------------------------------------------------------------------------
(* The penalties of Validate, checked under SpecQuery *)

\* the answer holds "error" in any mix of upper and lower case
MentionsError(answer) ==
    \E i \in 1..(Len(answer) - 4) :
        /\ SubSeq(answer, i, i) \in {"e", "E"}
        /\ SubSeq(answer, i + 1, i + 1) \in {"r", "R"}
        /\ SubSeq(answer, i + 2, i + 2) \in {"r", "R"}
        /\ SubSeq(answer, i + 3, i + 3) \in {"o", "O"}
        /\ SubSeq(answer, i + 4, i + 4) \in {"r", "R"}

\* C20: the Validate step multiplies confidence by 0.5 exactly when the
\* answer is shorter than 50 characters and by 0.3 exactly when the answer
\* contains "error" in any case; the two penalties are independent and
\* cumulative: both give the factor 0.15, neither leaves the confidence
\* unchanged.  (Factors in hundredths, the products compared exactly.)
C20_ValidatePenalties ==
    [][ pc = "validate" =>
          LET answer == state.final_response
              short == Len(answer) < 50
              error == MentionsError(answer)
              factor == CASE short /\ error -> 15
                          [] short /\ ~error -> 50
                          [] ~short /\ error -> 30
                          [] OTHER -> 100
          IN  /\ state'.confidence * 100 = state.confidence * factor
              /\ state'.final_response = answer
      ]_vars

\* Validate has cut a confidence of 1.0 to 0.15 for the answer "No error",
\* which is both short and mentions an error
C20_Witness ==
    /\ pc = "respond"
    /\ state.final_response = "No error"
    /\ Len(state.retrieved_chunks) = 5
    /\ state.confidence = 150
    /\ Logged(state.reasoning_steps, "Response seems short, reduced confidence")
    /\ Logged(state.reasoning_steps, "Error detected in response, reduced confidence")

----------------------------------------------------------------------------
(* The knowledge lookup of Generate, checked under SpecQuery.  What the    *)
(* lookup returned is read off the generation call when Generate has just  *)
(* run: every chunk handed to generate_insights carries it as its          *)
(* ontology_context.                                                       *)

\* the keyword groups, by position, that have a keyword occurring in the
\* query, case ignored
MatchingGroups(query) ==
    UNION { { k \in 1..Len(InsightRules) :
                \E w \in InsightRules[k].terms : Contains(q, w) } :
            q \in {Lower(query)} }

\* the insights of the first at most 4 of the groups, in group order, with
\* " | " between them
JoinedInsights(groups) ==
    LET n == IF Cardinality(groups) < 4 THEN Cardinality(groups) ELSE 4
        p(k) == InsightRules[KthOf(groups, k)].insight
    IN  CASE n = 0 -> ""
          [] n = 1 -> p(1)
          [] n = 2 -> p(1) \o " | " \o p(2)
          [] n = 3 -> p(1) \o " | " \o p(2) \o " | " \o p(3)
          [] OTHER -> p(1) \o " | " \o p(2) \o " | " \o p(3) \o " | " \o p(4)

\* some chunk handed to the call carries an ontology concept
SomeConcept(context_chunks) ==
    \E i \in 1..Len(context_chunks) :
        context_chunks[i].metadata.ontology_concepts # <<>>

\* C21 as stated: for the healthcare domain the lookup returns the insights
\* of the matching keyword groups, in group order, the first 4 at most,
\* joined with " | ", and for every other domain it returns no insight.
C21_Original ==
    pc = "validate" =>
      \A c \in CallsTo("generate_insights") :
        \E expected \in { IF calls[c].domain = "healthcare"
                          THEN JoinedInsights(MatchingGroups(calls[c].query))
                          ELSE "" } :
          \A i \in 1..Len(calls[c].context_chunks) :
            calls[c].context_chunks[i].ontology_context = expected

\* C21: when the chunks carry at least one ontology concept, the knowledge
\* lookup returns, for the healthcare domain, the fixed insight strings of
\* the keyword groups that have a keyword occurring as a case-insensitive
\* substring of the query, in the fixed group order, capped to the first 4
\* and joined with " | "; for every other domain, and whenever the chunks
\* carry no ontology concept, it returns no insight.
C21_KnowledgeLookup ==
    pc = "validate" =>
      \A c \in CallsTo("generate_insights") :
        \E expected \in { IF /\ calls[c].domain = "healthcare"
                             /\ SomeConcept(calls[c].context_chunks)
                          THEN JoinedInsights(MatchingGroups(calls[c].query))
                          ELSE "" } :
          \A i \in 1..Len(calls[c].context_chunks) :
            calls[c].context_chunks[i].ontology_context = expected

\* a healthcare query matching five keyword groups (cost, deductible,
\* copayment, comparison, emergency) got the insights of the first four
\* (the fifth, of the emergency group, was cut)
C21_Witness ==
    /\ pc = "validate"
    /\ Cardinality(MatchingGroups(state.query)) = 5
    /\ \E c \in CallsTo("generate_insights") :
          /\ calls[c].domain = "healthcare"
          /\ Len(calls[c].context_chunks) > 0
          /\ calls[c].context_chunks[1].ontology_context =
                InsightRules[1].insight \o " | " \o InsightRules[2].insight \o " | "
                \o InsightRules[3].insight \o " | " \o InsightRules[4].insight

----------------------------------------------------------------------------
(* The related_concepts field of the response, checked under SpecQuery *)

\* C22: the related_concepts field of the process_query response is the
\* related-concept set computed by the Generate step (the value Generate
\* stored in the state under "related_concepts": deduplicated, built from
\* the query's keyword groups and the cost-related chunk concepts), and it
\* has at most 8 entries.
C22_ResponseCarriesRelatedConcepts ==
    pc = "done" =>
        /\ query_response.related_concepts = state.related_concepts
        /\ Cardinality(query_response.related_concepts) <= 8

----------------------------------------------------------------------------
(* Collaborator calls of one request, checked under SpecQuery *)

\* C23: no external call is retried.  In one process_query request the
\* retrieval collaborator is called exactly once (no call before the
\* Retrieve step, one from then on) and the generation collaborator at most
\* once (no call before the Generate step, one from then on), whether the
\* call returned or raised: a failed call is never issued again.
C23_NoCallIsRetried ==
    /\ Cardinality(CallsTo("query_similar")) = IF QueryRank > 2 THEN 1 ELSE 0
    /\ Cardinality(CallsTo("generate_insights")) = IF QueryRank > 4 THEN 1 ELSE 0
    /\ Len(calls) <= 2
    /\ pc = "done" =>
          /\ Cardinality(CallsTo("query_similar")) = 1
          /\ Cardinality(CallsTo("generate_insights")) <= 1

\* the request ended after both its calls had raised: the failed retrieval
\* and the failed generation were each issued once, in that order
C23_Witness ==
    /\ pc = "done"
    /\ Len(calls) = 2
    /\ calls[1].fn = "query_similar" /\ calls[1].outcome = "raised"
    /\ calls[2].fn = "generate_insights" /\ calls[2].outcome = "raised"
    /\ query_response.confidence = 0

----------------------------------------------------------------------------
(* iteration_count, checked under SpecQuery *)

\* C24: iteration_count starts at 0, is incremented only by the Analyze
\* step and by exactly 1, and is modified by no other step: it is 0 until
\* Analyze has run and 1 in every state from then on, so the value reported
\* in the response metadata is 1.
C24_IterationCountIsOne ==
    /\ state.iteration_count = IF pc = "analyze" THEN 0 ELSE 1
    /\ pc = "done" => query_response.metadata.iteration_count = 1

\* a response reporting iteration_count 1 after the four later steps ran on
\* five chunks, none of them touching the counter
C24_Witness ==
    /\ pc = "done"
    /\ query_response.metadata.iteration_count = 1
    /\ query_response.metadata.chunks_analyzed = 5
    /\ Len(query_response.reasoning_steps) >= 10

----------------------------------------------------------------------------
(* The documents compared on the direct path, checked under SpecDirect *)

\* the load calls that returned chunks for a document not loaded before, in
\* request order
FirstLoads ==
    { i \in CallsTo("get_document_chunks") :
        /\ calls[i].outcome = "chunks"
        /\ \A j \in 1..(i - 1) : calls[j].document_id # calls[i].document_id }

\* the k-th successfully loaded document of the request
LoadedDocument(k) == calls[KthOf(FirstLoads, k)].document_id

\* the text of a stored document: its chunk contents with a blank line
\* between them (every stored text is shorter than the 3000-character cut)
DocumentText(doc_id) == CombinedText("\n\n", StoreChunks(doc_id))

\* C25: on the direct path, when the pre-check passes, compare_documents
\* compares exactly the first two successfully-loaded documents in request
\* order, and issues exactly one comparison call, however many documents
\* were requested: the call is handed the texts of these two documents.
C25_ComparesFirstTwoLoaded ==
    dpc = "done" /\ comparison_response.comparison_id # "insufficient_docs" =>
        /\ Cardinality(CallsTo("compare_documents")) = 1
        /\ Cardinality(FirstLoads) >= 2
        /\ dc.doc_ids = <<LoadedDocument(1), LoadedDocument(2)>>
        /\ \A c \in CallsTo("compare_documents") :
              /\ calls[c].document1_content = DocumentText(LoadedDocument(1))
              /\ calls[c].document2_content = DocumentText(LoadedDocument(2))

----------------------------------------------------------------------------
(* The load step of the comparison graph, checked under SpecGraph *)

\* C26: in the load step of the full pipeline a document whose load raises
\* is recorded with empty content and does not abort the load: when the
\* step is over, every requested document is a key of document_contents,
\* with no content if its load raised and with its chunks otherwise.
C26_FailedLoadDoesNotAbort ==
    cpc = "extract_key_sections" =>
        \A i \in 1..Len(cstate.document_ids) :
            LET doc_id == cstate.document_ids[i] IN
            /\ HasKey(cstate.document_contents, doc_id)
            /\ DictGet(cstate.document_contents, doc_id) =
                  IF LoadRaises(doc_id) THEN <<>> ELSE StoreChunks(doc_id)

----------------------------------------------------------------------------
(* The comparison calls of the matrix step, checked under SpecGraph *)

\* the documents the matrix step pairs: the keys of document_contents, in
\* their order
MatrixDocIds == DictKeys(cstate.document_contents)

\* position of a document among them
PositionOf(doc_id) ==
    CHOOSE i \in 1..Len(MatrixDocIds) : MatrixDocIds[i] = doc_id

\* the pair (i, j) of positions compared by the k-th comparison call
CalledPair(k) ==
    LET call == calls[KthOf(CallsTo("compare_documents"), k)]
    IN  <<PositionOf(call.doc1_id), PositionOf(call.doc2_id)>>

\* the pair that follows (i, j) in lexicographic order among n documents
PairAfter(pair, n) ==
    IF pair[2] < n THEN <<pair[1], pair[2] + 1>> ELSE <<pair[1] + 1, pair[1] + 2>>

----------------------------------------------------------------------------
(* The section-extraction step of the comparison graph, checked under      *)
(* SpecGraph.  The keywords are looked up in the lower-cased chunk text.   *)

\* the word occurs in the text, case ignored
OccursIn(word, text) == Contains(Lower(text), Lower(word))

\* the chunk passes the focus filter and the filter of the comparison type
PassesFilters(chunk, comparison_type, focus_areas) ==
    /\ \/ focus_areas = <<>>
       \/ \E a \in 1..Len(focus_areas) : OccursIn(focus_areas[a], chunk.content)
    /\ \/ /\ comparison_type = "coverage"
          /\ \E w \in {"coverage", "benefit", "limit", "exclusion"} :
                OccursIn(w, chunk.content)
       \/ /\ comparison_type = "terms"
          /\ \E w \in {"term", "condition", "definition", "clause"} :
                OccursIn(w, chunk.content)
       \/ comparison_type \notin {"coverage", "terms"}

\* positions of the chunks of a document that pass the filters
PassingPositions(chunks, comparison_type, focus_areas) ==
    { i \in 1..Len(chunks) : PassesFilters(chunks[i], comparison_type, focus_areas) }

\* C28: the section-extraction step keeps a chunk if and only if
\* (focus_areas is empty or some focus area occurs case-insensitively in
\* the chunk text) and (the type is coverage and the text contains one of
\* coverage, benefit, limit, exclusion, or the type is terms and the text
\* contains one of term, condition, definition, clause, or the type is
\* anything else); the kept chunks of a document keep their order, and
\* every loaded document id remains a key of document_contents, in the
\* same position, also when none of its chunks is kept.
C28_SectionExtraction ==
    [][ cpc = "extract_key_sections" =>
          LET before == cstate.document_contents
              after == cstate'.document_contents
          IN  /\ Len(after) = Len(before)
              /\ \A d \in 1..Len(before) :
                    LET chunks == before[d].value
                        kept == after[d].value
                        passing == PassingPositions(chunks, cstate.comparison_type,
                                                    cstate.focus_areas)
                    IN  /\ after[d].key = before[d].key
                        /\ Len(kept) = Cardinality(passing)
                        /\ \A k \in 1..Len(kept) : kept[k] = chunks[KthOf(passing, k)]
      ]_vars

\* a coverage comparison focused on "Dental" of three loaded documents: the
\* first keeps its one chunk about dental coverage, the two others keep
\* none of theirs and are still keys of document_contents
C28_Witness ==
    /\ cpc = "perform_analysis"
    /\ cstate.comparison_type = "coverage"
    /\ cstate.focus_areas = <<"Dental">>
    /\ DictKeys(cstate.document_contents) = <<"d1", "d2", "d3">>
    /\ ChunkContents(cstate.document_contents[1].value)
          = <<"Dental coverage has an annual limit">>
    /\ cstate.document_contents[2].value = <<>>
    /\ cstate.document_contents[3].value = <<>>

----------------------------------------------------------------------------
(* A failed matrix construction, checked under SpecGraph *)

\* the graph has not yet left the create-comparison-matrix step
UpToMatrix ==
    cpc \in {"load_documents", "extract_key_sections", "perform_analysis",
             "create_comparison_matrix"}

\* C29: matrix construction is all-or-nothing.  Until the step ends the
\* comparison matrix is the empty one the graph was started with; if a
\* pairwise comparison call raises during the step the matrix is left as
\* it was (no record of an already completed pair is stored), and the later
\* aggregation and synthesis steps then produce empty aggregates and
\* overall confidence 0.0.
C29_MatrixIsAllOrNothing ==
    /\ UpToMatrix => cstate.comparison_matrix = <<>>
    /\ CallRaised("compare_documents") =>
          /\ cstate.comparison_matrix = <<>>
          /\ AfterAggregation =>
                /\ cstate.analysis_results.similarities = <<>>
                /\ cstate.analysis_results.differences = <<>>
                /\ cstate.analysis_results.key_insights = <<>>
          /\ cpc = "END" => cstate.confidence.num = 0

\* of the three pairs of three documents two were compared and the call
\* for the third raised: the run ended with an empty matrix, empty
\* aggregates and confidence 0.0
C29_Witness ==
    /\ cpc = "END"
    /\ Cardinality(CallsTo("compare_documents")) = 3
    /\ CallRaised("compare_documents")
    /\ cstate.comparison_matrix = <<>>
    /\ cstate.analysis_results.similarities = <<>>
    /\ cstate.confidence.num = 0
    /\ Logged(cstate.reasoning_steps, "Error creating matrix: GenerationError")

----------------------------------------------------------------------------
(* The count logged by the relevance filter, checked under SpecQuery *)

\* C30: the count N written by the filter step in its "Filtered to N highly
\* relevant chunks" log entry equals the number of chunks held in
\* retrieved_chunks after that step.
C30_LoggedCountIsKeptCount ==
    pc = "generate" =>
        Logged(state.reasoning_steps,
               "Filtered to " \o ToString(Len(state.retrieved_chunks))
                   \o " highly relevant chunks")

====
